---- MODULE Spec2Model ----
(***************************************************************************)
(* Meeting-session lifecycle of the HC1 meeting bot: MeetingManager        *)
(* (bot/src/bot/index.ts), its Deno KV persistence (history under          *)
(* ["sessions", id], active index under ["active_sessions", roomId]) and   *)
(* startup recovery.  Every asynchronous method is split at its awaits:    *)
(* the code between two awaits runs atomically, a kv call takes effect     *)
(* when it completes, and it may instead reject.                           *)
(***************************************************************************)
EXTENDS Integers, Sequences, FiniteSets, TLC

(* ---------------------------- bounds ----------------------------------- *)
MaxCalls == 4
MaxOverlapCalls == 3
MaxTasks == 2
MaxFailures == 1
MaxStops == 1
MaxRestartCalls == 3
MaxSaveFailures == 2
MaxLen == 3
MaxName == 2
MaxHours == 2
MaxWaiting == 11
MaxStarting == 2

Rooms == {"r1", "r2"}
NoTopic == "undefined"
NoTime == 0
TaskIds == 1..MaxTasks

(* The inputs the host can deliver, each tagged with its room: start         *)
(* commands (room, chair), topic commands, message events, edit events      *)
(* (with the id of the event they replace) and membership events.           *)
StartCommands ==
  { [room_id |-> "r1", sender |-> "u1"], [room_id |-> "r2", sender |-> "u1"] }

TopicCommands == { [room_id |-> "r1", topic |-> "agenda"] }

Events ==
  { [room_id |-> "r1", event_id |-> "e1", sender |-> "u2", origin_server_ts |-> 1, msgtype |-> "m.text",
     body |-> "e1"],
    [room_id |-> "r1", event_id |-> "e3", sender |-> "u2", origin_server_ts |-> 1, msgtype |-> "m.image",
     body |-> "e3"] }

EditEvents ==
  { [room_id |-> "r1", event_id |-> "e2", sender |-> "u2", origin_server_ts |-> 1, msgtype |-> "m.text",
     body |-> "e2", originalEventId |-> "e1"] }

(* command messages: the room, the sender and the parsed command; u3 is not  *)
(* in the authorized-users set                                               *)
AuthorizedUsers == {"u1"}

CommandEvents ==
  { [room_id |-> "r1", sender |-> u, command |-> c, topic |-> "agenda"] :
      u \in {"u1", "u3"}, c \in {"start", "end", "cancel", "status", "help", "topic"} }

(* an edit whose new content is an image, handed to the manager directly     *)
DirectEdits ==
  { [room_id |-> "r1", event_id |-> "e5", sender |-> "u2", origin_server_ts |-> 1, msgtype |-> "m.image",
     body |-> "e5", originalEventId |-> "e1"] }

(* m.room.message events as the homeserver sends them: the outer content     *)
(* (msgtype, body), the relation and the replacement content of an edit.     *)
(* An edit's outer body is the fallback text for clients without edits.      *)
NoRelation == [rel_type |-> "none", event_id |-> "none"]
NoContent == [msgtype |-> "none", body |-> ""]

EditDeliveries ==
  { [room_id |-> "r1", event_id |-> "e2", sender |-> "u2", origin_server_ts |-> 2,
     msgtype |-> "m.text", body |-> "* e2",
     relates_to |-> [rel_type |-> "m.replace", event_id |-> "e1"],
     new_content |-> [msgtype |-> "m.text", body |-> "e2"]] }

(* the messages of a room: commands of an authorized and of another user, a  *)
(* message of a member, a message of the bot itself and an edit              *)
RoomMessages ==
  { [room_id |-> "r1", event_id |-> c[1], sender |-> c[2], origin_server_ts |-> 1,
     msgtype |-> "m.text", body |-> c[3], relates_to |-> NoRelation, new_content |-> NoContent] :
      c \in { <<"c1", "u1", "#startmeeting">>, <<"c2", "u1", "#endmeeting">>,
              <<"c3", "u3", "#endmeeting">>, <<"c4", "u1", "#cancelmeeting">>,
              <<"e1", "u2", "e1">>, <<"e6", "bot", "e6">> } }
  \cup EditDeliveries

(* redactions, with the id of the event they withdraw                        *)
RedactionEvents ==
  { [room_id |-> "r1", event_id |-> "e4", sender |-> "u2", origin_server_ts |-> 2, redacts |-> "e1"] }

MemberEvents ==
  { [room_id |-> "r1", state_key |-> "u2", membership |-> "join"],
    [room_id |-> "r1", state_key |-> "u2", membership |-> "leave"] }

VARIABLES
  up,              \* the process is running and initialize() has completed
  activeSessions,  \* Map<roomId, MeetingSession>: roomId -> reference (session id)
  heap,            \* the MeetingSession objects those references point to
  kvSessions,      \* Deno KV, prefix ["sessions"]: session id -> record
  kvActive,        \* Deno KV, prefix ["active_sessions"]: roomId -> record
  tasks,           \* manager calls suspended at an await
  now,             \* the wall clock read by new Date(); it advances while the process is down
  nextId,          \* freshness of generateSessionId
  last,            \* the result most recently returned to a caller
  acked,           \* per session id, the entries whose capture call returned true
  liveAtStop,      \* the registered sessions when the process stopped, until it restarts
  failures,        \* kv calls that have rejected so far
  stops,           \* process stops so far
  calls,           \* calls that went on to change state so far
  handler,         \* the end command's handler, suspended at a save or a send
  sinks,           \* the documents held by the primary and the fallback sink, by path
  serial,          \* whether the host hands the manager one event at a time
  closed,          \* ids of the sessions an endMeeting or cancelMeeting call has closed
  conn             \* the service's connection: isRunning, the client, the reconnect fields

vars == <<up, activeSessions, heap, kvSessions, kvActive, tasks, now, nextId,
          last, acked, liveAtStop, failures, stops, calls, handler, sinks, serial, closed, conn>>

(* ---------------------------- maps -------------------------------------- *)
EmptyMap == [x \in {} |-> 0]

MapSet(m, k, v) == [x \in (DOMAIN m) \cup {k} |-> IF x = k THEN v ELSE m[x]]

MapDelete(m, k) == [x \in (DOMAIN m) \ {k} |-> m[x]]

Range(s) == {s[i] : i \in DOMAIN s}

(* Set.add on an insertion-ordered Set<string>                              *)
SetAdd(s, x) == IF x \in Range(s) THEN s ELSE Append(s, x)

(* Array.from(set): the elements in insertion order                         *)
ArrayFrom(s) == s

(* new Set(array): insertion order, duplicates dropped                      *)
RECURSIVE NewSet(_)
NewSet(a) == IF a = <<>> THEN <<>>
             ELSE SetAdd(NewSet(SubSeq(a, 1, Len(a) - 1)), a[Len(a)])

(* new Date(date): the same instant                                         *)
NewDate(d) == d

DisplayName(u) == IF u = "u1" THEN "Ann" ELSE "Bob"

(* getRoomName(roomId), as a sequence of characters                          *)
RoomName(roomId) == IF roomId = "r1" THEN <<"A", " ", "a">> ELSE <<"a", "!">>

(* ---------------------------- sessions ----------------------------------- *)
NewSession(id, roomId, chairUserId) ==
  [id |-> id, roomId |-> roomId, roomName |-> RoomName(roomId), chairUserId |-> chairUserId,
   startTime |-> now, endTime |-> NoTime, messages |-> <<>>,
   participants |-> <<chairUserId>>, topic |-> NoTopic]

(* the participant Set stored without the conversion to an array            *)
SessionData_SetNotFlattened(session) == [session EXCEPT !.participants = <<>>]

(* persistSession's sessionData = {...session, participants: Array.from()}  *)
SessionData(session) == [session EXCEPT !.participants = ArrayFrom(session.participants)]

(* recoverActiveSessions' reconstruction of one stored record               *)
Rehydrate(sessionData) ==
  [sessionData EXCEPT
     !.startTime = NewDate(sessionData.startTime),
     !.endTime = IF sessionData.endTime # NoTime THEN NewDate(sessionData.endTime) ELSE NoTime,
     !.participants = NewSet(sessionData.participants)]

(* ---------------------------- minutes composition ------------------------ *)
(* [...messages].sort((a, b) => a.timestamp - b.timestamp): a stable sort    *)
RECURSIVE InsertByTimestamp(_, _)
InsertByTimestamp(sorted, m) ==
  IF sorted = <<>> THEN <<m>>
  ELSE IF sorted[Len(sorted)].timestamp <= m.timestamp THEN Append(sorted, m)
  ELSE Append(InsertByTimestamp(SubSeq(sorted, 1, Len(sorted) - 1), m), sorted[Len(sorted)])

RECURSIVE SortByTimestamp(_)
SortByTimestamp(messages) ==
  IF messages = <<>> THEN <<>>
  ELSE InsertByTimestamp(SortByTimestamp(SubSeq(messages, 1, Len(messages) - 1)),
                         messages[Len(messages)])

(* a key that also tells an edit from an original                            *)
MessageKey_WithEdited(message) == <<message.senderId, message.timestamp, message.isEdited>>

(* the Map key `${message.senderId}-${message.timestamp.getTime()}`          *)
MessageKey(message) == <<message.senderId, message.timestamp>>

(* messageMap after the loop over a prefix of the messages: an entry keeps   *)
(* the position of its key's first insertion; an edited message replaces the *)
(* value, an unedited one is stored only when the key is new                 *)
RECURSIVE MessageMap(_)
MessageMap(messages) ==
  IF messages = <<>> THEN <<>>
  ELSE LET map == MessageMap(SubSeq(messages, 1, Len(messages) - 1))
           message == messages[Len(messages)]
           existing == {i \in DOMAIN map : MessageKey(map[i]) = MessageKey(message)}
       IN  IF existing = {} THEN Append(map, message)
           ELSE IF message.isEdited
             THEN [i \in DOMAIN map |-> IF i \in existing THEN message ELSE map[i]]
             ELSE map

(* Array.from(messageMap.values())                                           *)
filterDuplicateEdits(messages) == MessageMap(messages)

(* toISOString().split("T")[1].substring(0, 8): a tick of the clock is no   *)
(* finer than a second                                                       *)
formatTimeWithSeconds(date) == date

(* formatMessage: the content, marked when the entry is an edit              *)
formatMessage(message) == <<message.content, message.isEdited>>

(* one pushed line of minutesLines; source is the entry it was rendered from *)
RenderedLine(message) ==
  [time |-> formatTimeWithSeconds(message.timestamp),
   name |-> message.senderDisplayName,
   text |-> formatMessage(message),
   source |-> message]

RECURSIVE RenderLines(_, _)
RenderLines(messages, includeSystemMessages) ==
  IF messages = <<>> THEN <<>>
  ELSE LET message == messages[Len(messages)]
           before == RenderLines(SubSeq(messages, 1, Len(messages) - 1), includeSystemMessages)
       IN  IF ~includeSystemMessages /\ message.senderId = "system"
             THEN before
             ELSE Append(before, RenderedLine(message))

(* the transcript rendered from every captured entry                         *)
generateMinutesContent_Unfiltered(session, options) ==
  IF Len(session.messages) = 0 THEN <<>>
  ELSE RenderLines(SortByTimestamp(session.messages), options.includeSystemMessages)

(* the transcript; a session without messages yields only the placeholder     *)
(* sentence and no rendered line                                             *)
generateMinutesContent(session, options) ==
  IF Len(session.messages) = 0 THEN <<>>
  ELSE RenderLines(filterDuplicateEdits(SortByTimestamp(session.messages)),
                   options.includeSystemMessages)

(* messageCounts after the loop: one entry per non-system sender, in order   *)
(* of first appearance, with the latest display name and the running count   *)
RECURSIVE MessageCounts(_)
MessageCounts(messages) ==
  IF messages = <<>> THEN <<>>
  ELSE LET counts == MessageCounts(SubSeq(messages, 1, Len(messages) - 1))
           message == messages[Len(messages)]
           existing == {i \in DOMAIN counts : counts[i].userId = message.senderId}
       IN  IF message.senderId = "system" THEN counts
           ELSE IF existing = {}
             THEN Append(counts, [userId |-> message.senderId,
                                  displayName |-> message.senderDisplayName,
                                  messageCount |-> 1])
             ELSE [i \in DOMAIN counts |->
                     IF i \in existing
                       THEN [userId |-> message.senderId,
                             displayName |-> message.senderDisplayName,
                             messageCount |-> counts[i].messageCount + 1]
                       ELSE counts[i]]

(* .sort((a, b) => b.messageCount - a.messageCount): stable, descending      *)
RECURSIVE InsertByCount(_, _)
InsertByCount(sorted, stat) ==
  IF sorted = <<>> THEN <<stat>>
  ELSE IF sorted[Len(sorted)].messageCount >= stat.messageCount THEN Append(sorted, stat)
  ELSE Append(InsertByCount(SubSeq(sorted, 1, Len(sorted) - 1), stat), sorted[Len(sorted)])

RECURSIVE SortByCount(_)
SortByCount(stats) ==
  IF stats = <<>> THEN <<>>
  ELSE InsertByCount(SortByCount(SubSeq(stats, 1, Len(stats) - 1)), stats[Len(stats)])

(* statistics counted over all captured entries                              *)
calculateParticipantStats_Unfiltered(session) ==
  SortByCount(MessageCounts(SortByTimestamp(session.messages)))

(* statistics left in order of first appearance                              *)
calculateParticipantStats_Unsorted(session) ==
  MessageCounts(filterDuplicateEdits(SortByTimestamp(session.messages)))

calculateParticipantStats(session) ==
  SortByCount(MessageCounts(filterDuplicateEdits(SortByTimestamp(session.messages))))

(* room names are sequences of characters over a small alphabet              *)
Chars == {"A", "a", "-", " ", "!"}

(* String.toLowerCase, per character                                         *)
toLowerCase(text) == [i \in DOMAIN text |-> IF text[i] = "A" THEN "a" ELSE text[i]]

(* .replace(/[^a-z0-9]+/g, "-"): every run of other characters becomes one   *)
(* hyphen                                                                    *)
RECURSIVE HyphenateRuns(_)
HyphenateRuns(text) ==
  IF text = <<>> THEN <<>>
  ELSE LET before == HyphenateRuns(SubSeq(text, 1, Len(text) - 1))
           c == text[Len(text)]
       IN  IF c = "a" THEN Append(before, c)
           ELSE IF before # <<>> /\ before[Len(before)] = "-" THEN before
           ELSE Append(before, "-")

(* .replace(/^-+|-+$/g, ""): all leading and trailing hyphens                *)
RECURSIVE TrimHyphens(_)
TrimHyphens(text) ==
  IF text = <<>> THEN <<>>
  ELSE IF text[1] = "-" THEN TrimHyphens(Tail(text))
  ELSE IF text[Len(text)] = "-" THEN TrimHyphens(SubSeq(text, 1, Len(text) - 1))
  ELSE text

slugify(text) == TrimHyphens(HyphenateRuns(toLowerCase(text)))

(* the clock ticks twice a minute; toISOString() cut to YYYY-MM-DD and HH-MM *)
TicksPerMinute == 2

Minute(date) == date \div TicksPerMinute

(* `${date}-${time}-${roomSlug}.md`: date and time have a fixed width        *)
generateFilename(session) == <<Minute(session.startTime), slugify(session.roomName)>>

(* generateMinutes refusing a session only when it has no startTime          *)
generateMinutes_ChecksStart(session, options) ==
  IF session.startTime = NoTime
    THEN [ok |-> FALSE, source |-> session]
    ELSE [ok |-> TRUE, source |-> session,
          content |-> generateMinutesContent(session, options),
          filename |-> generateFilename(session),
          participantStats |-> calculateParticipantStats(session)]

(* MinutesGenerator.generateMinutes under the constructor's options: refuses *)
(* a session with no endTime; otherwise the document is composed from the    *)
(* session it is given                                                       *)
generateMinutes(session, options) ==
  IF session.endTime = NoTime
    THEN [ok |-> FALSE, source |-> session]
    ELSE [ok |-> TRUE, source |-> session,
          content |-> generateMinutesContent(session, options),
          filename |-> generateFilename(session),
          participantStats |-> calculateParticipantStats(session)]

(* what the deployment's configuration file asks for                         *)
ConfiguredOptions == [includeSystemMessages |-> FALSE]

(* new MinutesGenerator(): the manager passes no options, so the generator   *)
(* runs with its defaults                                                    *)
DefaultOptions == [includeSystemMessages |-> TRUE]

(* this.minutesGenerator.generateMinutes(session) in the manager             *)
GenerateMinutes(session) == generateMinutes(session, DefaultOptions)

NoMinutes == [ok |-> FALSE]
NoSession == [id |-> 0]

(* ---------------------------- tasks --------------------------------------- *)
NoHandler == [pc |-> "none"]

FreeTask == CHOOSE t \in TaskIds \ DOMAIN tasks : \A u \in TaskIds \ DOMAIN tasks : t <= u

(* state-changing calls a behaviour may make                                 *)
CallBudget ==
  IF ~serial THEN MaxOverlapCalls ELSE IF stops > 0 THEN MaxRestartCalls ELSE MaxCalls

(* a host that dispatches one event at a time starts a call when the process *)
(* is up and no earlier call is suspended; the listeners of                  *)
(* setupEventListeners start a handler for each event as it arrives, while   *)
(* earlier handlers may still be suspended                                   *)
CanCall(r) ==
  /\ up
  /\ IF serial THEN DOMAIN tasks = {} /\ handler.pc = "none"
               ELSE DOMAIN tasks # TaskIds

NewTask(op, r, sid, pc, data, minutes, msg) ==
  [op |-> op, roomId |-> r, sid |-> sid, pc |-> pc, data |-> data,
   minutes |-> minutes, msg |-> msg]

NoMsg == [eventId |-> "none"]

(* objects no longer referenced by the registry or a suspended call         *)
Collect(h, reg, ts) ==
  [s \in {x \in DOMAIN h : (\E r \in DOMAIN reg : reg[r] = x)
                            \/ (\E t \in DOMAIN ts : ts[t].sid = x)} |-> h[s]]

(* what a call returned: success flag, the kind of failure, the session and  *)
(* minutes handed back; sid notes which session the call had looked up      *)
Result(op, r, success, error, session, minutes, sid) ==
  [op |-> op, roomId |-> r, success |-> success, error |-> error,
   session |-> session, minutes |-> minutes, sid |-> sid]

(* bookkeeping for the claims: a capture call of a registered session        *)
(* returned true; entries of sessions that left the registry are dropped     *)
Registered(a, reg) == [s \in {x \in DOMAIN a : \E r \in DOMAIN reg : reg[r] = x} |-> a[s]]

(* a call that returns without suspending and without touching state         *)
ReturnNow(op, r, error) ==
  /\ last' = Result(op, r, FALSE, error, NoSession, NoMinutes, 0)
  /\ UNCHANGED <<conn, serial, closed, handler, sinks, up, activeSessions, heap, kvSessions, kvActive, tasks, now,
                 nextId, acked, liveAtStop, failures, stops, calls>>

(* persistSession up to its first await: snapshot, then kv.set(["sessions"]) *)
Suspend(op, r, sid, h, reg, minutes, msg) ==
  /\ tasks' = MapSet(tasks, FreeTask,
                     NewTask(op, r, sid, "set_sessions", SessionData(h[sid]), minutes, msg))
  /\ heap' = h
  /\ activeSessions' = reg
  /\ last' = [op |-> "none"]

(* ---------------------------- operations ---------------------------------- *)
(* startMeeting without the activeSessions.has(roomId) check                 *)
startMeeting_Unchecked(r, chair) ==
  /\ CanCall(r)
  /\ calls < CallBudget
  /\ calls' = calls + 1
  /\ Suspend("startMeeting", r, nextId,
             MapSet(heap, nextId, NewSession(nextId, r, chair)),
             MapSet(activeSessions, r, nextId), NoMinutes, NoMsg)
  /\ nextId' = nextId + 1
  /\ UNCHANGED <<conn, serial, closed, handler, sinks, up, kvSessions, kvActive, now, acked, liveAtStop, failures, stops>>

(* startMeeting with a session id made of the room alone                    *)
startMeeting_IdOfRoom(r, chair) ==
  LET id == IF r = "r1" THEN 1 ELSE 2
  IN  /\ CanCall(r)
      /\ IF r \in DOMAIN activeSessions
           THEN ReturnNow("startMeeting", r, "SessionConflict")
           ELSE /\ calls < CallBudget
                /\ calls' = calls + 1
                /\ Suspend("startMeeting", r, id,
                           MapSet(heap, id, NewSession(id, r, chair)),
                           MapSet(activeSessions, r, id), NoMinutes, NoMsg)
                /\ nextId' = nextId + 1
                /\ UNCHANGED <<conn, serial, closed, handler, sinks, up, kvSessions, kvActive, now,
                               acked, liveAtStop, failures, stops>>

startMeeting(r, chair) ==
  /\ CanCall(r)
  /\ IF r \in DOMAIN activeSessions
       THEN ReturnNow("startMeeting", r, "SessionConflict")
       ELSE /\ calls < CallBudget
            /\ calls' = calls + 1
            /\ Suspend("startMeeting", r, nextId,
                       MapSet(heap, nextId, NewSession(nextId, r, chair)),
                       MapSet(activeSessions, r, nextId), NoMinutes, NoMsg)
            /\ nextId' = nextId + 1
            /\ UNCHANGED <<conn, serial, closed, handler, sinks, up, kvSessions, kvActive, now, acked, liveAtStop, failures, stops>>

endMeeting(r) ==
  /\ CanCall(r)
  /\ IF r \notin DOMAIN activeSessions
       THEN ReturnNow("endMeeting", r, "NoActiveSession")
       ELSE LET sid == activeSessions[r]
                session == [heap[sid] EXCEPT !.endTime = now]
                minutes == GenerateMinutes(session)
            IN  IF ~minutes.ok
                  THEN /\ heap' = MapSet(heap, sid, session)
                       /\ last' = Result("endMeeting", r, FALSE, "Failed", NoSession, NoMinutes, sid)
                       /\ UNCHANGED <<conn, serial, closed, handler, sinks, up, activeSessions, kvSessions, kvActive, tasks,
                                      now, nextId, acked, liveAtStop, failures, stops, calls>>
                  ELSE /\ Suspend("endMeeting", r, sid, MapSet(heap, sid, session),
                                  activeSessions, minutes, NoMsg)
                       /\ calls < CallBudget
                       /\ calls' = calls + 1
                       /\ UNCHANGED <<conn, serial, closed, handler, sinks, up, kvSessions, kvActive, now, nextId, acked, liveAtStop, failures, stops>>

(* cancelMeeting deleting the active-index entry before looking the session up *)
cancelMeeting_DeleteFirst(r) ==
  /\ CanCall(r)
  /\ LET sid == IF r \in DOMAIN activeSessions THEN activeSessions[r] ELSE 0
     IN  /\ activeSessions' = MapDelete(activeSessions, r)
         /\ tasks' = MapSet(tasks, FreeTask,
                            NewTask("cancelMeeting", r, sid, "del_active",
                                    IF sid = 0 THEN NoSession ELSE SessionData(heap[sid]),
                                    NoMinutes, NoMsg))
         /\ last' = [op |-> "none"]
         /\ acked' = Registered(acked, MapDelete(activeSessions, r))
         /\ calls < CallBudget
         /\ calls' = calls + 1
         /\ UNCHANGED <<conn, serial, closed, handler, sinks, up, heap, kvSessions, kvActive, now, nextId, liveAtStop, failures, stops>>

cancelMeeting(r) ==
  /\ CanCall(r)
  /\ IF r \notin DOMAIN activeSessions
       THEN ReturnNow("cancelMeeting", r, "NoActiveSession")
       ELSE LET sid == activeSessions[r]
            IN  /\ activeSessions' = MapDelete(activeSessions, r)
                /\ tasks' = MapSet(tasks, FreeTask,
                                   NewTask("cancelMeeting", r, sid, "del_active",
                                           SessionData(heap[sid]), NoMinutes, NoMsg))
                /\ last' = [op |-> "none"]
                /\ acked' = Registered(acked, MapDelete(activeSessions, r))
                /\ calls < CallBudget
                /\ calls' = calls + 1
                /\ UNCHANGED <<conn, serial, closed, handler, sinks, up, heap, kvSessions, kvActive, now, nextId, liveAtStop, failures, stops>>

(* read-only                                                                 *)
getMeetingStatus(r) ==
  IF r \notin DOMAIN activeSessions
    THEN [hasActiveMeeting |-> FALSE, messageCount |-> 0]
    ELSE [hasActiveMeeting |-> TRUE,
          messageCount |-> Len(heap[activeSessions[r]].messages)]

setMeetingTopic(r, topic) ==
  /\ CanCall(r)
  /\ IF r \notin DOMAIN activeSessions
       THEN ReturnNow("setMeetingTopic", r, "NoActiveSession")
       ELSE LET sid == activeSessions[r]
            IN  /\ Suspend("setMeetingTopic", r, sid,
                           MapSet(heap, sid, [heap[sid] EXCEPT !.topic = topic]),
                           activeSessions, NoMinutes, NoMsg)
                /\ calls < CallBudget
                /\ calls' = calls + 1
                /\ UNCHANGED <<conn, serial, closed, handler, sinks, up, kvSessions, kvActive, now, nextId, acked, liveAtStop, failures, stops>>

CapturedTypes == {"m.text", "m.emote", "m.notice"}

Captured(event, senderDisplayName, isEdited, originalEventId) ==
  [timestamp |-> NewDate(event.origin_server_ts), senderId |-> event.sender,
   senderDisplayName |-> senderDisplayName, content |-> event.body,
   messageType |-> event.msgtype, eventId |-> event.event_id,
   isEdited |-> isEdited, originalEventId |-> originalEventId]

(* a capture that writes an edit over the entry it replaces                   *)
Push_Overwrites(op, r, m, who) ==
  LET sid == activeSessions[r]
      session == heap[sid]
      originals == {i \in DOMAIN session.messages :
                      m.isEdited /\ session.messages[i].eventId = m.originalEventId}
  IN  /\ calls < CallBudget
      /\ calls' = calls + 1
      /\ Suspend(op, r, sid,
                 MapSet(heap, sid,
                        [session EXCEPT !.messages =
                                          IF originals = {} THEN Append(@, m)
                                          ELSE [@ EXCEPT ![CHOOSE i \in originals : TRUE] = m],
                                        !.participants = IF who = "" THEN @ ELSE SetAdd(@, who)]),
                 activeSessions, NoMinutes, m)
      /\ UNCHANGED <<conn, serial, closed, handler, sinks, up, kvSessions, kvActive, now, nextId, acked, liveAtStop, failures, stops>>

(* session.messages.push(m); session.participants.add(who); persistSession  *)
Push(op, r, m, who) ==
  LET sid == activeSessions[r]
      session == heap[sid]
  IN  /\ calls < CallBudget
      /\ calls' = calls + 1
      /\ Suspend(op, r, sid,
                 MapSet(heap, sid,
                        [session EXCEPT !.messages = Append(@, m),
                                        !.participants = IF who = "" THEN @ ELSE SetAdd(@, who)]),
                 activeSessions, NoMinutes, m)
      /\ UNCHANGED <<conn, serial, closed, handler, sinks, up, kvSessions, kvActive, now, nextId, acked, liveAtStop, failures, stops>>

captureMessage(r, event, senderDisplayName) ==
  /\ CanCall(r)
  /\ IF r \notin DOMAIN activeSessions
       THEN ReturnNow("captureMessage", r, "false")
       ELSE IF event.msgtype \notin CapturedTypes
         THEN ReturnNow("captureMessage", r, "false")
         ELSE Push("captureMessage", r, Captured(event, senderDisplayName, FALSE, "undefined"),
                   event.sender)

captureMessageEdit(r, event, originalEventId, senderDisplayName) ==
  /\ CanCall(r)
  /\ IF r \notin DOMAIN activeSessions
       THEN ReturnNow("captureMessageEdit", r, "false")
       ELSE Push("captureMessageEdit", r,
                 Captured(event, senderDisplayName, TRUE, originalEventId), event.sender)

SystemMessage(userId, eventType) ==
  [timestamp |-> now, senderId |-> "system", senderDisplayName |-> "System",
   content |-> DisplayName(userId) \o (IF eventType = "join" THEN " joined" ELSE " left"),
   messageType |-> "m.notice", eventId |-> "system",
   isEdited |-> FALSE, originalEventId |-> "undefined"]

(* handleMessageRedaction: the redaction is captured as a notice sent by    *)
(* the redacting user under the display name "System"                        *)
handleMessageRedaction(r, event) ==
  captureMessage(r, [room_id |-> event.room_id, event_id |-> event.event_id,
                     sender |-> event.sender, origin_server_ts |-> event.origin_server_ts,
                     msgtype |-> "m.notice", body |-> event.event_id],
                 "System")

(* a leave that takes the user out of the participants                       *)
recordParticipantEvent_Removes(r, userId, eventType) ==
  /\ CanCall(r)
  /\ IF r \notin DOMAIN activeSessions
       THEN ReturnNow("recordParticipantEvent", r, "false")
       ELSE LET sid == activeSessions[r]
                session == heap[sid]
            IN  /\ calls < CallBudget
                /\ calls' = calls + 1
                /\ Suspend("recordParticipantEvent", r, sid,
                           MapSet(heap, sid,
                                  [session EXCEPT
                                     !.messages = Append(@, SystemMessage(userId, eventType)),
                                     !.participants =
                                        IF eventType = "join" THEN SetAdd(@, userId)
                                        ELSE SelectSeq(@, LAMBDA u : u # userId)]),
                           activeSessions, NoMinutes, SystemMessage(userId, eventType))
                /\ UNCHANGED <<conn, serial, closed, handler, sinks, up, kvSessions, kvActive, now,
                               nextId, acked, liveAtStop, failures, stops>>

recordParticipantEvent(r, userId, eventType) ==
  /\ CanCall(r)
  /\ IF r \notin DOMAIN activeSessions
       THEN ReturnNow("recordParticipantEvent", r, "false")
       ELSE Push("recordParticipantEvent", r, SystemMessage(userId, eventType),
                 IF eventType = "join" THEN userId ELSE "")

(* ---------------------------- commands ------------------------------------ *)
isAuthorized(userId) == userId \in AuthorizedUsers

(* validateAuthorization: status and help are open to every sender          *)
validateAuthorization(userId, command) ==
  IF command \in {"status", "help"} THEN TRUE ELSE isAuthorized(userId)

(* the bot answers in the room without calling a method that changes state   *)
Reply(r, event, kind, status) ==
  /\ last' = [op |-> kind, roomId |-> r, command |-> event.command, sender |-> event.sender,
              status |-> status]
  /\ UNCHANGED <<conn, serial, closed, handler, sinks, up, activeSessions, heap, kvSessions, kvActive,
                 tasks, now, nextId, acked, liveAtStop, failures, stops, calls>>

NoStatus == [hasActiveMeeting |-> FALSE, messageCount |-> 0]

(* processEvent without the authorization result of handleCommand            *)
processEvent_Unchecked(r, event) ==
  /\ CanCall(r)
  /\ CASE event.command = "start" -> startMeeting(r, event.sender)
       [] event.command = "end" -> endMeeting(r)
       [] event.command = "cancel" -> cancelMeeting(r)
       [] event.command = "topic" -> setMeetingTopic(r, event.topic)
       [] event.command = "status" -> Reply(r, event, "status", getMeetingStatus(r))
       [] event.command = "help" -> Reply(r, event, "help", NoStatus)

(* processEvent: handleCommand parses the command and asks                   *)
(* validateAuthorization; an invalid result is answered with its error,      *)
(* a valid one goes to the command's handler                                 *)
processEvent(r, event) ==
  /\ CanCall(r)
  /\ IF ~validateAuthorization(event.sender, event.command)
       THEN Reply(r, event, "denied", NoStatus)
       ELSE CASE event.command = "start" -> startMeeting(r, event.sender)
              [] event.command = "end" -> endMeeting(r)
              [] event.command = "cancel" -> cancelMeeting(r)
              [] event.command = "topic" -> setMeetingTopic(r, event.topic)
              [] event.command = "status" -> Reply(r, event, "status", getMeetingStatus(r))
              [] event.command = "help" -> Reply(r, event, "help", NoStatus)

(* ---------------------------- listeners ----------------------------------- *)
(* config.matrix.userId                                                      *)
BotUser == "bot"

SupportedCommands ==
  {"#startmeeting", "#endmeeting", "#cancelmeeting", "#meetingstatus", "#help", "#topic"}

(* MatrixBotServiceImpl.isCommand: a text message whose body is a command    *)
isCommand(event) == event.msgtype = "m.text" /\ event.body \in SupportedCommands

parseCommand(commandText) ==
  CASE commandText = "#startmeeting" -> "start"
    [] commandText = "#endmeeting" -> "end"
    [] commandText = "#cancelmeeting" -> "cancel"
    [] commandText = "#meetingstatus" -> "status"
    [] commandText = "#help" -> "help"
    [] commandText = "#topic" -> "topic"

(* a listener that returns without calling the manager                       *)
Ignore(r, event) ==
  /\ up
  /\ last' = [op |-> "ignored", roomId |-> r, eventId |-> event.event_id]
  /\ UNCHANGED <<conn, serial, closed, handler, sinks, up, activeSessions, heap, kvSessions, kvActive,
                 tasks, now, nextId, acked, liveAtStop, failures, stops, calls>>

handleMessage(r, event) ==
  IF event.sender = BotUser
    THEN Ignore(r, event)
    ELSE captureMessage(r, event, DisplayName(event.sender))

(* handleMessageEdit handing the manager the event with its outer content    *)
handleMessageEdit_OuterContent(r, event) ==
  IF event.sender = BotUser
    THEN Ignore(r, event)
    ELSE IF /\ event.relates_to.rel_type = "m.replace"
            /\ event.new_content.msgtype \in CapturedTypes
      THEN captureMessageEdit(r, event, event.relates_to.event_id, DisplayName(event.sender))
      ELSE Ignore(r, event)

(* handleMessageEdit: an m.replace relation with text, emote or notice as    *)
(* its new content is captured as an edit carrying the new content           *)
handleMessageEdit(r, event) ==
  IF event.sender = BotUser
    THEN Ignore(r, event)
    ELSE IF /\ event.relates_to.rel_type = "m.replace"
            /\ event.new_content.msgtype \in CapturedTypes
      THEN captureMessageEdit(r, [event EXCEPT !.msgtype = event.new_content.msgtype,
                                               !.body = event.new_content.body],
                              event.relates_to.event_id, DisplayName(event.sender))
      ELSE Ignore(r, event)

(* the room.message listener                                                 *)
onRoomMessage(r, event) ==
  IF event.sender = BotUser
    THEN Ignore(r, event)
    ELSE IF isCommand(event)
      THEN processEvent(r, [room_id |-> r, sender |-> event.sender,
                            command |-> parseCommand(event.body), topic |-> "agenda"])
      ELSE handleMessage(r, event)

(* the room.event listener, for an event of type m.room.message              *)
onRoomEvent(r, event) == handleMessageEdit(r, event)

(* both listeners capture the event: the entries are pushed in the order the *)
(* two handlers resume, and each handler then waits in persistSession        *)
PushBoth(r, opA, a, opB, b, who) ==
  LET sid == activeSessions[r]
      afterA == [heap[sid] EXCEPT !.messages = Append(@, a), !.participants = SetAdd(@, who)]
      afterB == [afterA EXCEPT !.messages = Append(@, b), !.participants = SetAdd(@, who)]
      t1 == FreeTask
      t2 == CHOOSE t \in TaskIds \ (DOMAIN tasks \cup {t1}) : TRUE
  IN  /\ calls < CallBudget
      /\ calls' = calls + 1
      /\ tasks' = MapSet(MapSet(tasks, t1, NewTask(opA, r, sid, "set_sessions",
                                                   SessionData(afterA), NoMinutes, a)),
                         t2, NewTask(opB, r, sid, "set_sessions",
                                     SessionData(afterB), NoMinutes, b))
      /\ heap' = MapSet(heap, sid, afterB)
      /\ last' = [op |-> "none"]
      /\ UNCHANGED <<conn, serial, closed, handler, sinks, up, activeSessions, kvSessions, kvActive,
                     now, nextId, acked, liveAtStop, failures, stops>>

(* the client emits an m.room.message event as room.message and as           *)
(* room.event; when both listeners go on to capture, their handlers run side *)
(* by side (no event here is both a command and an edit)                     *)
deliver(r, event) ==
  LET plain == /\ event.sender # BotUser
               /\ ~isCommand(event)
               /\ event.msgtype \in CapturedTypes
               /\ r \in DOMAIN activeSessions
      edit == /\ event.sender # BotUser
              /\ event.relates_to.rel_type = "m.replace"
              /\ event.new_content.msgtype \in CapturedTypes
              /\ r \in DOMAIN activeSessions
      asPlain == Captured(event, DisplayName(event.sender), FALSE, "undefined")
      asEdit == Captured([event EXCEPT !.msgtype = event.new_content.msgtype,
                                       !.body = event.new_content.body],
                         DisplayName(event.sender), TRUE, event.relates_to.event_id)
  IN  IF plain /\ edit
        THEN /\ CanCall(r)
             /\ Cardinality(TaskIds \ DOMAIN tasks) >= 2
             /\ \/ PushBoth(r, "captureMessage", asPlain, "captureMessageEdit", asEdit, event.sender)
                \/ PushBoth(r, "captureMessageEdit", asEdit, "captureMessage", asPlain, event.sender)
        ELSE IF edit THEN onRoomEvent(r, event)
        ELSE onRoomMessage(r, event)

(* ---------------------------- the end command's saves -------------------- *)
(* .replace(/[^a-z0-9\s-]/g, ''): other characters are dropped               *)
RemoveSpecial(text) == SelectSeq(text, LAMBDA c : c \in {"a", "-", " "})

(* .replace(/\s+/g, '-') and .replace(/-+/g, '-'): a run of the given         *)
(* character becomes one hyphen                                              *)
RECURSIVE RunsToHyphen(_, _)
RunsToHyphen(text, c) ==
  IF text = <<>> THEN <<>>
  ELSE LET before == RunsToHyphen(SubSeq(text, 1, Len(text) - 1), c)
           x == text[Len(text)]
       IN  IF x # c THEN Append(before, x)
           ELSE IF Len(text) > 1 /\ text[Len(text) - 1] = c THEN before
           ELSE Append(before, "-")

(* .replace(/^-|-$/g, ''): one leading and one trailing hyphen               *)
TrimOneHyphen(text) ==
  LET head == IF text # <<>> /\ text[1] = "-" THEN Tail(text) ELSE text
  IN  IF head # <<>> /\ head[Len(head)] = "-" THEN SubSeq(head, 1, Len(head) - 1) ELSE head

sanitizeChannelName(roomName) ==
  TrimOneHyphen(RunsToHyphen(RunsToHyphen(RemoveSpecial(toLowerCase(roomName)), " "), "-"))

(* generateFilePath of both providers: `${channelName}/${Y-M-D-H-m}.md`      *)
generateFilePath(session) == <<sanitizeChannelName(session.roomName), Minute(session.startTime)>>

(* handleEndMeetingCommand after endMeeting returned success: it calls the   *)
(* primary sink's saveMinutes(result.session, result.minutes.content)        *)
SaveMinutes(roomId, session, minutes) ==
  [pc |-> "save_primary", roomId |-> roomId, session |-> session, minutes |-> minutes,
   saves |-> <<>>, notices |-> <<>>]

SinkAt(pc) == IF pc = "save_primary" THEN "primary" ELSE "fallback"

SaveAttempt(ok) ==
  [sink |-> SinkAt(handler.pc), session |-> handler.session, content |-> handler.minutes,
   path |-> generateFilePath(handler.session), ok |-> ok]

(* sendFormattedMessage(roomId, text) is called; text is told by its kind    *)
Notice(kind) == [roomId |-> handler.roomId, kind |-> kind, delivered |-> FALSE]

(* the handler has run to its end                                            *)
Handled(saves, notices) ==
  /\ handler' = NoHandler
  /\ last' = [op |-> "handleEndMeetingCommand", roomId |-> handler.roomId,
              session |-> handler.session, minutes |-> handler.minutes,
              saves |-> saves, notices |-> notices]

(* await saveMinutes(...) resolves: the document is in the sink; the primary *)
(* branch then reports the location from getMinutesUrl, the fallback branch  *)
(* reports the local backup                                                  *)
SaveOk ==
  /\ handler.pc \in {"save_primary", "save_fallback"}
  /\ sinks' = [sinks EXCEPT ![SinkAt(handler.pc)] =
                 MapSet(@, generateFilePath(handler.session), handler.minutes)]
  /\ handler' = [handler EXCEPT
                   !.pc = IF handler.pc = "save_primary" THEN "send_primary" ELSE "send_fallback",
                   !.saves = Append(@, SaveAttempt(TRUE)),
                   !.notices = Append(@, Notice(IF handler.pc = "save_primary"
                                                  THEN "available_at_primary"
                                                  ELSE "saved_to_local_backup"))]
  /\ last' = [op |-> "none"]
  /\ UNCHANGED <<conn, serial, closed, up, activeSessions, heap, kvSessions, kvActive, tasks, now, nextId,
                 acked, liveAtStop, failures, stops, calls>>

(* a handler that reports the failure of the primary without trying the      *)
(* fallback                                                                  *)
SaveFail_GivesUp ==
  /\ handler.pc \in {"save_primary", "save_fallback"}
  /\ failures < MaxSaveFailures
  /\ failures' = failures + 1
  /\ handler' = [handler EXCEPT !.pc = "send_failed",
                                !.saves = Append(@, SaveAttempt(FALSE)),
                                !.notices = Append(@, Notice("failed_to_save"))]
  /\ last' = [op |-> "none"]
  /\ UNCHANGED <<conn, serial, closed, up, activeSessions, heap, kvSessions, kvActive, tasks, now, nextId,
                 acked, liveAtStop, stops, calls, sinks>>

(* await saveMinutes(...) rejects: the primary's catch tries the fallback,   *)
(* the fallback's catch reports that the minutes could not be saved          *)
SaveFail ==
  /\ handler.pc \in {"save_primary", "save_fallback"}
  /\ failures < MaxSaveFailures
  /\ failures' = failures + 1
  /\ handler' = IF handler.pc = "save_primary"
                  THEN [handler EXCEPT !.pc = "save_fallback",
                                       !.saves = Append(@, SaveAttempt(FALSE))]
                  ELSE [handler EXCEPT !.pc = "send_failed",
                                       !.saves = Append(@, SaveAttempt(FALSE)),
                                       !.notices = Append(@, Notice("failed_to_save"))]
  /\ last' = [op |-> "none"]
  /\ UNCHANGED <<conn, serial, closed, up, activeSessions, heap, kvSessions, kvActive, tasks, now, nextId,
                 acked, liveAtStop, stops, calls, sinks>>

SendStates == {"send_primary", "send_fallback", "send_failed", "send_error", "send_unexpected"}

(* await sendFormattedMessage(...) resolves: the handler returns             *)
SendOk ==
  /\ handler.pc \in SendStates
  /\ Handled(handler.saves,
             [handler.notices EXCEPT ![Len(handler.notices)].delivered = TRUE])
  /\ UNCHANGED <<conn, serial, closed, up, activeSessions, heap, kvSessions, kvActive, tasks, now, nextId,
                 acked, liveAtStop, failures, stops, calls, sinks>>

(* await sendFormattedMessage(...) rejects: control passes to the enclosing  *)
(* catch block, which saves to the fallback or sends the next message        *)
SendFail ==
  /\ handler.pc \in SendStates
  /\ failures < MaxSaveFailures
  /\ failures' = failures + 1
  /\ CASE handler.pc = "send_primary" ->
            /\ handler' = [handler EXCEPT !.pc = "save_fallback"]
            /\ last' = [op |-> "none"]
       [] handler.pc = "send_fallback" ->
            /\ handler' = [handler EXCEPT !.pc = "send_failed",
                                          !.notices = Append(@, Notice("failed_to_save"))]
            /\ last' = [op |-> "none"]
       [] handler.pc = "send_failed" ->
            /\ handler' = [handler EXCEPT !.pc = "send_error",
                                          !.notices = Append(@, Notice("could_not_end"))]
            /\ last' = [op |-> "none"]
       [] handler.pc = "send_error" ->
            /\ handler' = [handler EXCEPT !.pc = "send_unexpected",
                                          !.notices = Append(@, Notice("unexpected_error"))]
            /\ last' = [op |-> "none"]
       [] handler.pc = "send_unexpected" -> Handled(handler.saves, handler.notices)
  /\ UNCHANGED <<conn, serial, closed, up, activeSessions, heap, kvSessions, kvActive, tasks, now, nextId,
                 acked, liveAtStop, stops, calls, sinks>>

(* ---------------------------- kv completions ------------------------------ *)
Finish(t, success, error, session, minutes, h, reg) ==
  LET ts == MapDelete(tasks, t)
  IN  /\ tasks' = ts
      /\ activeSessions' = reg
      /\ heap' = Collect(h, reg, ts)
      /\ last' = Result(tasks[t].op, tasks[t].roomId, success, error, session, minutes,
                         tasks[t].sid)

CaptureOps == {"captureMessage", "captureMessageEdit", "recordParticipantEvent"}

Ack(t) ==
  IF tasks[t].op \in CaptureOps
    THEN Registered(MapSet(acked, tasks[t].sid,
                           Append(IF tasks[t].sid \in DOMAIN acked
                                    THEN acked[tasks[t].sid] ELSE <<>>,
                                  tasks[t].msg)),
                    activeSessions)
    ELSE acked

(* endMeeting without this.activeSessions.delete(roomId)                     *)
AfterPersist_KeepsRegistered(t) ==
  LET T == tasks[t]
  IN  IF T.op = "endMeeting"
        THEN /\ tasks' = [tasks EXCEPT ![t].pc = "del_active"]
             /\ last' = [op |-> "none"]
             /\ UNCHANGED <<activeSessions, heap, acked>>
        ELSE /\ Finish(t, TRUE, "", IF T.op = "startMeeting" THEN heap[T.sid] ELSE NoSession,
                       NoMinutes, heap, activeSessions)
             /\ acked' = Ack(t)

(* the caller's code after `await this.persistSession(session)`             *)
AfterPersist(t) ==
  LET T == tasks[t]
  IN  IF T.op = "endMeeting"
        THEN /\ activeSessions' = MapDelete(activeSessions, T.roomId)
             /\ tasks' = [tasks EXCEPT ![t].pc = "del_active"]
             /\ last' = [op |-> "none"]
             /\ acked' = Registered(acked, MapDelete(activeSessions, T.roomId))
             /\ UNCHANGED heap
        ELSE /\ Finish(t, TRUE, "", IF T.op = "startMeeting" THEN heap[T.sid] ELSE NoSession,
                       NoMinutes, heap, activeSessions)
             /\ acked' = Ack(t)

(* await this.kv.set(["sessions", session.id], sessionData) resolves         *)
KvSetSessionsOk(t) ==
  /\ t \in DOMAIN tasks /\ tasks[t].pc = "set_sessions"
  /\ kvSessions' = MapSet(kvSessions, tasks[t].data.id, tasks[t].data)
  /\ IF heap[tasks[t].sid].endTime = NoTime
       THEN /\ tasks' = [tasks EXCEPT ![t].pc = "set_active",
                                      ![t].data.messages = heap[tasks[t].sid].messages]
            /\ last' = [op |-> "none"]
            /\ UNCHANGED <<activeSessions, heap, acked>>
       ELSE AfterPersist(t)
  /\ UNCHANGED <<conn, serial, closed, handler, sinks, up, kvActive, now, nextId, liveAtStop, failures, stops, calls>>

(* await this.kv.set(["active_sessions", session.roomId], sessionData)       *)
KvSetActiveOk(t) ==
  /\ t \in DOMAIN tasks /\ tasks[t].pc = "set_active"
  /\ kvActive' = MapSet(kvActive, tasks[t].data.roomId, tasks[t].data)
  /\ AfterPersist(t)
  /\ UNCHANGED <<conn, serial, closed, handler, sinks, up, kvSessions, now, nextId, liveAtStop, failures, stops, calls>>

(* endMeeting returning without the delete of the active-index entry         *)
KvDeleteActiveOk_KeepsIndex(t) ==
  /\ t \in DOMAIN tasks /\ tasks[t].pc = "del_active"
  /\ tasks[t].op = "endMeeting" => handler.pc = "none"
  /\ closed' = IF tasks[t].op = "endMeeting" THEN closed \cup {tasks[t].sid} ELSE closed
  /\ kvActive' = IF tasks[t].op = "endMeeting" THEN kvActive
                 ELSE MapDelete(kvActive, tasks[t].roomId)
  /\ IF tasks[t].op = "endMeeting"
       THEN /\ Finish(t, TRUE, "", heap[tasks[t].sid], tasks[t].minutes, heap, activeSessions)
            /\ handler' = SaveMinutes(tasks[t].roomId, heap[tasks[t].sid], tasks[t].minutes)
       ELSE /\ tasks' = [tasks EXCEPT ![t].pc = "del_sessions"]
            /\ last' = [op |-> "none"]
            /\ UNCHANGED <<activeSessions, heap, handler>>
  /\ UNCHANGED <<conn, serial, sinks, up, kvSessions, now, nextId, acked, liveAtStop, failures, stops, calls>>

(* await this.kv.delete(["active_sessions", roomId]) resolves                *)
KvDeleteActiveOk(t) ==
  /\ t \in DOMAIN tasks /\ tasks[t].pc = "del_active"
  /\ tasks[t].op = "endMeeting" => handler.pc = "none"
  /\ closed' = IF tasks[t].op = "endMeeting" THEN closed \cup {tasks[t].sid} ELSE closed
  /\ kvActive' = MapDelete(kvActive, tasks[t].roomId)
  /\ IF tasks[t].op = "endMeeting"
       THEN /\ Finish(t, TRUE, "", heap[tasks[t].sid], tasks[t].minutes, heap, activeSessions)
            /\ handler' = SaveMinutes(tasks[t].roomId, heap[tasks[t].sid], tasks[t].minutes)
       ELSE /\ tasks' = [tasks EXCEPT ![t].pc = "del_sessions"]
            /\ last' = [op |-> "none"]
            /\ UNCHANGED <<activeSessions, heap, handler>>
  /\ UNCHANGED <<conn, serial, sinks, up, kvSessions, now, nextId, acked, liveAtStop, failures, stops, calls>>

(* cancelMeeting without the delete of the history record                   *)
KvDeleteSessionsOk_Skipped(t) ==
  /\ t \in DOMAIN tasks /\ tasks[t].pc = "del_sessions"
  /\ closed' = closed \cup {tasks[t].sid}
  /\ Finish(t, TRUE, "", NoSession, NoMinutes, heap, activeSessions)
  /\ UNCHANGED <<conn, serial, handler, sinks, up, kvSessions, kvActive, now, nextId, acked, liveAtStop, failures, stops, calls>>

(* a cancelMeeting whose delete takes every history record                   *)
KvDeleteSessionsOk_DeletesAll(t) ==
  /\ t \in DOMAIN tasks /\ tasks[t].pc = "del_sessions"
  /\ closed' = closed \cup {tasks[t].sid}
  /\ kvSessions' = EmptyMap
  /\ Finish(t, TRUE, "", NoSession, NoMinutes, heap, activeSessions)
  /\ UNCHANGED <<conn, serial, handler, sinks, up, kvActive, now, nextId, acked, liveAtStop, failures, stops, calls>>

(* await this.kv.delete(["sessions", session.id]) resolves                   *)
KvDeleteSessionsOk(t) ==
  /\ t \in DOMAIN tasks /\ tasks[t].pc = "del_sessions"
  /\ closed' = closed \cup {tasks[t].sid}
  /\ kvSessions' = MapDelete(kvSessions, tasks[t].data.id)
  /\ Finish(t, TRUE, "", NoSession, NoMinutes, heap, activeSessions)
  /\ UNCHANGED <<conn, serial, handler, sinks, up, kvActive, now, nextId, acked, liveAtStop, failures, stops, calls>>

(* the awaited kv call rejects: the method's catch block returns a failure   *)
KvFail(t) ==
  /\ t \in DOMAIN tasks
  /\ Finish(t, FALSE, IF tasks[t].op \in CaptureOps THEN "false" ELSE "Failed",
            NoSession, NoMinutes, heap, activeSessions)
  /\ failures < MaxFailures
  /\ failures' = failures + 1
  /\ UNCHANGED <<conn, serial, closed, handler, sinks, up, kvSessions, kvActive, now, nextId, acked, liveAtStop, stops, calls>>

(* ---------------------------- the connection ------------------------------ *)
maxReconnectAttempts == 10
InitialDelay == 1000
DelayCap == 30000

(* the service before start(): no client                                     *)
NotStarted ==
  [isRunning |-> FALSE, client |-> "none", reconnectAttempts |-> 0,
   reconnectDelay |-> InitialDelay, waiting |-> 0, starting |-> 0]

(* the service after start(): the client is syncing; waiting counts the      *)
(* handleConnectionError calls at their timer, starting the start() calls at *)
(* their awaits                                                              *)
Connected == [NotStarted EXCEPT !.isRunning = TRUE, !.client = "syncing"]

ManagerUnchanged ==
  UNCHANGED <<serial, closed, handler, sinks, up, activeSessions, heap, kvSessions, kvActive,
              tasks, now, nextId, last, acked, liveAtStop, failures, stops, calls>>

(* the client reports sync.failed: handleConnectionError up to its timer     *)
SyncFailed ==
  /\ conn.client = "syncing"
  /\ conn.isRunning
  /\ IF conn.reconnectAttempts + 1 > maxReconnectAttempts
       THEN conn' = [conn EXCEPT !.reconnectAttempts = @ + 1, !.isRunning = FALSE]
       ELSE /\ conn.waiting < MaxWaiting
            /\ conn' = [conn EXCEPT !.reconnectAttempts = @ + 1, !.waiting = @ + 1]
  /\ ManagerUnchanged

(* the client reports sync after failures                                    *)
SyncRestored ==
  /\ conn.client = "syncing"
  /\ conn.reconnectAttempts > 0
  /\ conn' = [conn EXCEPT !.reconnectAttempts = 0, !.reconnectDelay = InitialDelay]
  /\ ManagerUnchanged

Min(a, b) == IF a <= b THEN a ELSE b

(* the timer of a handleConnectionError fires: the delay doubles, the client *)
(* is stopped and start() is called, which returns at once when isRunning is *)
(* set and otherwise goes on to its awaits                                   *)
TimerFires ==
  /\ conn.waiting > 0
  /\ ~conn.isRunning => conn.starting < MaxStarting
  /\ conn' = [conn EXCEPT !.waiting = @ - 1,
                          !.reconnectDelay = Min(@ * 2, DelayCap),
                          !.client = "stopped",
                          !.starting = IF conn.isRunning THEN @ ELSE @ + 1]
  /\ ManagerUnchanged

(* start() gets through initialize() and client.start()                      *)
StartOk ==
  /\ conn.starting > 0
  /\ conn' = [conn EXCEPT !.starting = @ - 1, !.client = "syncing",
                          !.isRunning = TRUE, !.reconnectAttempts = 0]
  /\ ManagerUnchanged

(* start() fails at one of its awaits: its catch calls handleConnectionError, *)
(* which returns because isRunning is not set, and rethrows                  *)
StartFails ==
  /\ conn.starting > 0
  /\ ~conn.isRunning
  /\ conn' = [conn EXCEPT !.starting = @ - 1]
  /\ ManagerUnchanged

(* ---------------------------- stop and restart ---------------------------- *)
Stop ==
  /\ up
  /\ up' = FALSE
  /\ liveAtStop' = [r \in DOMAIN activeSessions |-> heap[activeSessions[r]]]
  /\ activeSessions' = EmptyMap
  /\ heap' = EmptyMap
  /\ tasks' = EmptyMap
  /\ last' = [op |-> "stop", idle |-> DOMAIN tasks = {},
              saving |-> IF handler.pc = "none" THEN "" ELSE handler.roomId]
  /\ handler' = NoHandler
  /\ stops < MaxStops
  /\ stops' = stops + 1
  /\ now' = now + 1
  /\ conn' = NotStarted
  /\ UNCHANGED <<serial, closed, sinks, kvSessions, kvActive, nextId, acked, failures, calls>>

RoomOrder == <<"r1", "r2">>

(* kv.list({prefix: ["active_sessions"]}) in key order                       *)
ActiveEntries(kv) == SelectSeq(RoomOrder, LAMBDA r : r \in DOMAIN kv)

(* the registry and objects built by the loop after reading n entries        *)
Recovered(kv, n) ==
  LET keys == SubSeq(ActiveEntries(kv), 1, n)
  IN  [reg |-> [r \in Range(keys) |-> kv[r].id],
       objs |-> [s \in {kv[r].id : r \in Range(keys)} |->
                   Rehydrate(kv[CHOOSE r \in Range(keys) : kv[r].id = s])]]

(* initialize(): open the store, then recoverActiveSessions(); a failing     *)
(* read ends the loop in the catch block, which only logs                    *)
initialize(n) ==
  /\ ~up
  /\ n \in 0..Len(ActiveEntries(kvActive))
  /\ up' = TRUE
  /\ activeSessions' = Recovered(kvActive, n).reg
  /\ heap' = Recovered(kvActive, n).objs
  /\ last' = Result("initialize", "", TRUE,
                    IF n < Len(ActiveEntries(kvActive)) THEN "ReadFailed" ELSE "",
                    NoSession, NoMinutes, 0)
  /\ acked' = Registered(acked, Recovered(kvActive, n).reg)
  /\ liveAtStop' = EmptyMap
  /\ conn' = Connected
  /\ UNCHANGED <<serial, closed, handler, sinks, kvSessions, kvActive, tasks, now, nextId, failures, stops, calls>>

(* the state after construction and initialize() on an empty store          *)
Constructed ==
  /\ up = TRUE
  /\ activeSessions = EmptyMap
  /\ heap = EmptyMap
  /\ kvSessions = EmptyMap
  /\ kvActive = EmptyMap
  /\ tasks = EmptyMap
  /\ now = 1
  /\ nextId = 1
  /\ last = [op |-> "none"]
  /\ acked = EmptyMap
  /\ liveAtStop = EmptyMap
  /\ failures = 0
  /\ stops = 0
  /\ calls = 0
  /\ handler = NoHandler
  /\ sinks = [primary |-> EmptyMap, fallback |-> EmptyMap]
  /\ closed = {}
  /\ conn = Connected

Init == Constructed /\ serial = TRUE

(* the same, under the listeners' own dispatch                               *)
InitOverlap == Constructed /\ serial = FALSE

Call ==
  \/ \E c \in StartCommands : startMeeting(c.room_id, c.sender)
  \/ \E r \in Rooms : endMeeting(r)
  \/ \E r \in Rooms : cancelMeeting(r)
  \/ \E c \in TopicCommands : setMeetingTopic(c.room_id, c.topic)
  \/ \E e \in Events : captureMessage(e.room_id, e, DisplayName(e.sender))
  \/ \E e \in EditEvents :
       captureMessageEdit(e.room_id, e, e.originalEventId, DisplayName(e.sender))
  \/ \E e \in MemberEvents : recordParticipantEvent(e.room_id, e.state_key, e.membership)

Complete ==
  \/ \E t \in TaskIds : KvSetSessionsOk(t)
  \/ \E t \in TaskIds : KvSetActiveOk(t)
  \/ \E t \in TaskIds : KvDeleteActiveOk(t)
  \/ \E t \in TaskIds : KvDeleteSessionsOk(t)
  \/ SaveOk
  \/ SendOk

Restart ==
  \/ Stop
  \/ \E n \in 0..Cardinality(Rooms) : initialize(n)

(* calls, with kv calls that may reject                                      *)
Next == Call \/ Complete \/ \E t \in TaskIds : KvFail(t)

Spec == Init /\ [][Next]_vars

(* calls, with process stops and restarts                                    *)
NextRestart == Call \/ Complete \/ Restart

SpecRestart == Init /\ [][NextRestart]_vars

(* calls, with rejecting kv calls and process stops and restarts             *)
NextFaults == Call \/ Complete \/ (\E t \in TaskIds : KvFail(t)) \/ Restart

SpecFaults == Init /\ [][NextFaults]_vars

(* calls, with sinks and message sends that may reject                       *)
NextSave == Call \/ Complete \/ SaveFail \/ SendFail

SpecSave == Init /\ [][NextSave]_vars

(* the start, end and cancel commands                                        *)
Commands ==
  \/ \E c \in StartCommands : startMeeting(c.room_id, c.sender)
  \/ \E r \in Rooms : endMeeting(r)
  \/ \E r \in Rooms : cancelMeeting(r)

(* commands, with rejecting sinks and sends and with stops and restarts of   *)
(* the process                                                               *)
NextSaveRestart == Commands \/ Complete \/ SaveFail \/ SendFail \/ Restart

SpecSaveRestart == Init /\ [][NextSaveRestart]_vars

(* calls, with redactions among the delivered events                         *)
NextEvents == Call \/ Complete \/ \E e \in RedactionEvents : handleMessageRedaction(e.room_id, e)

SpecEvents == Init /\ [][NextEvents]_vars

(* calls, with edits handed to the manager without the listener's checks     *)
NextManager ==
  \/ Call
  \/ Complete
  \/ \E e \in DirectEdits :
       captureMessageEdit(e.room_id, e, e.originalEventId, DisplayName(e.sender))

SpecManager == Init /\ [][NextManager]_vars

(* command messages of authorized and other senders, and messages            *)
NextCommands ==
  \/ \E e \in CommandEvents : processEvent(e.room_id, e)
  \/ \E e \in Events : captureMessage(e.room_id, e, DisplayName(e.sender))
  \/ Complete

SpecCommands == Init /\ [][NextCommands]_vars

(* calls that may start while earlier calls are suspended                    *)
NextOverlap == Call \/ Complete

SpecOverlap == InitOverlap /\ [][NextOverlap]_vars

(* the same, with kv calls that may reject                                   *)
NextOverlapFaults == Call \/ Complete \/ \E t \in TaskIds : KvFail(t)

SpecOverlapFaults == InitOverlap /\ [][NextOverlapFaults]_vars

(* overlapping commands and text messages, with kv calls that may reject:    *)
(* both rooms start meetings, r1 ends its meeting and takes the messages,     *)
(* r2 cancels its meeting (a room id is only a key of the manager's maps)     *)
NextRooms ==
  \/ \E c \in StartCommands : startMeeting(c.room_id, c.sender)
  \/ endMeeting("r1")
  \/ cancelMeeting("r2")
  \/ \E e \in {x \in Events : x.msgtype = "m.text"} :
       captureMessage(e.room_id, e, DisplayName(e.sender))
  \/ Complete
  \/ \E t \in TaskIds : KvFail(t)

SpecRooms == InitOverlap /\ [][NextRooms]_vars

(* start, end and cancel commands that may start while earlier ones are      *)
(* suspended                                                                 *)
NextOverlapCommands == Commands \/ Complete

SpecOverlapCommands == InitOverlap /\ [][NextOverlapCommands]_vars

(* commands and messages, with edit events delivered to both listeners       *)
NextEdits ==
  \/ Commands
  \/ \E e \in {x \in Events : x.msgtype = "m.text"} :
       captureMessage(e.room_id, e, DisplayName(e.sender))
  \/ \E e \in EditDeliveries : onRoomMessage(e.room_id, e)
  \/ \E e \in EditDeliveries : onRoomEvent(e.room_id, e)
  \/ Complete

SpecEdits == Init /\ [][NextEdits]_vars

(* the messages of a room, each delivered to both listeners                  *)
NextDeliveries ==
  \/ \E e \in RoomMessages : deliver(e.room_id, e)
  \/ Complete

SpecDeliveries == Init /\ [][NextDeliveries]_vars

(* sync reports of a running service; a timer that is due fires and a        *)
(* start() under way comes to an end                                         *)
Reconnecting == TimerFires \/ StartOk \/ StartFails

NextReconnect == SyncFailed \/ SyncRestored \/ Reconnecting

SpecReconnect == Init /\ [][NextReconnect]_vars /\ WF_vars(Reconnecting)

(* ---------------------------- composition on its own ---------------------- *)
SeqsUpTo(S, n) == UNION {[1..k -> S] : k \in 0..n}

(* captured entries a session can hold: two users and the system, two        *)
(* instants, originals and edits, a user whose display name changes          *)
MessagePool ==
  { [timestamp |-> t, senderId |-> u, senderDisplayName |-> n, content |-> "body",
     messageType |-> "m.text", eventId |-> IF e THEN "e2" ELSE "e1",
     isEdited |-> e, originalEventId |-> IF e THEN "e1" ELSE "undefined"] :
      t \in 1..2, u \in {"u1"}, n \in {"Ann", "Anna"}, e \in BOOLEAN }
  \cup
  { [timestamp |-> t, senderId |-> "u2", senderDisplayName |-> "Bob", content |-> "body",
     messageType |-> "m.text", eventId |-> IF e THEN "e2" ELSE "e1",
     isEdited |-> e, originalEventId |-> IF e THEN "e1" ELSE "undefined"] :
      t \in 1..2, e \in BOOLEAN }
  \cup
  { [timestamp |-> t, senderId |-> "system", senderDisplayName |-> "System",
     content |-> "Bob joined", messageType |-> "m.notice", eventId |-> "system",
     isEdited |-> FALSE, originalEventId |-> "undefined"] : t \in 1..2 }

(* sessions handed to the generator: ended or still open, any entries         *)
GivenSessions ==
  { [id |-> 1, roomId |-> "r1", roomName |-> RoomName("r1"), chairUserId |-> "u1",
     startTime |-> 1, endTime |-> end, messages |-> messages,
     participants |-> <<"u1">>, topic |-> NoTopic] :
      end \in {NoTime, 3}, messages \in SeqsUpTo(MessagePool, MaxLen) }

Idle ==
  /\ up = FALSE
  /\ activeSessions = EmptyMap
  /\ kvSessions = EmptyMap
  /\ kvActive = EmptyMap
  /\ tasks = EmptyMap
  /\ now = 3
  /\ nextId = 1
  /\ last = [op |-> "none"]
  /\ acked = EmptyMap
  /\ liveAtStop = EmptyMap
  /\ failures = 0
  /\ stops = 0
  /\ calls = 0
  /\ handler = NoHandler
  /\ sinks = [primary |-> EmptyMap, fallback |-> EmptyMap]
  /\ serial = TRUE
  /\ closed = {}
  /\ conn = NotStarted

InitCompose ==
  /\ Idle
  /\ \E session \in GivenSessions : heap = [i \in {1} |-> session]

(* a generator constructed with the given options composes the session       *)
Compose(options) ==
  /\ last.op = "none"
  /\ last' = [op |-> "generateMinutes", options |-> options,
              minutes |-> generateMinutes(heap[1], options)]
  /\ UNCHANGED <<conn, serial, closed, handler, sinks, up, activeSessions, heap, kvSessions, kvActive, tasks, now, nextId,
                 acked, liveAtStop, failures, stops, calls>>

NextCompose == \E include \in BOOLEAN : Compose([includeSystemMessages |-> include])

SpecCompose == InitCompose /\ [][NextCompose]_vars

(* captured entries of distinct events: two messages of one user and their   *)
(* edit, and the notices of a join and of a leave, at two instants           *)
DistinctPool ==
  { [timestamp |-> t, senderId |-> "u2", senderDisplayName |-> "Bob", content |-> e,
     messageType |-> "m.text", eventId |-> e,
     isEdited |-> e = "e2", originalEventId |-> IF e = "e2" THEN "e1" ELSE "undefined"] :
      t \in 1..2, e \in {"e1", "e2", "e3"} }
  \cup
  { [timestamp |-> t, senderId |-> "system", senderDisplayName |-> "System",
     content |-> c, messageType |-> "m.notice", eventId |-> "system",
     isEdited |-> FALSE, originalEventId |-> "undefined"] :
      t \in 1..2, c \in {"Bob joined", "Bob left"} }

(* ended sessions holding any of those entries                               *)
DistinctSessions ==
  { [id |-> 1, roomId |-> "r1", roomName |-> RoomName("r1"), chairUserId |-> "u1",
     startTime |-> 1, endTime |-> 3, messages |-> messages,
     participants |-> <<"u1">>, topic |-> NoTopic] :
      messages \in SeqsUpTo(DistinctPool, MaxLen) }

InitDistinct ==
  /\ Idle
  /\ \E session \in DistinctSessions : heap = [i \in {1} |-> session]

SpecDistinct == InitDistinct /\ [][NextCompose]_vars

(* two ended sessions without entries, each with any room name and start    *)
NamedSessions ==
  { [id |-> 1, roomId |-> "r1", roomName |-> name, chairUserId |-> "u1",
     startTime |-> start, endTime |-> 4, messages |-> <<>>,
     participants |-> <<"u1">>, topic |-> NoTopic] :
      name \in SeqsUpTo(Chars, MaxName), start \in 1..3 }

InitFilename ==
  /\ Idle
  /\ \E a \in NamedSessions, b \in NamedSessions : heap = [i \in {1, 2} |-> IF i = 1 THEN a ELSE b]

(* the generator names the documents of both sessions                        *)
NameBoth ==
  /\ last.op = "none"
  /\ last' = [op |-> "generateFilename", first |-> generateFilename(heap[1]),
              second |-> generateFilename(heap[2])]
  /\ UNCHANGED <<conn, serial, closed, handler, sinks, up, activeSessions, heap, kvSessions, kvActive, tasks, now, nextId,
                 acked, liveAtStop, failures, stops, calls>>

NextFilename == NameBoth

SpecFilename == InitFilename /\ [][NextFilename]_vars

(* ---------------------------- the duration -------------------------------- *)
MsPerMinute == 1000 * 60
MsPerHour == 1000 * 60 * 60

(* `${n} hour${n !== 1 ? "s" : ""}`, likewise for minutes                     *)
Part(n, unit) == [n |-> n, unit |-> IF n # 1 THEN unit \o "s" ELSE unit]

(* a duration whose unit words are always plural                             *)
calculateDuration_Plural(startTime, endTime) ==
  LET durationMs == endTime - startTime
      hours == durationMs \div MsPerHour
      minutes == (durationMs % MsPerHour) \div MsPerMinute
  IN  IF hours > 0
        THEN <<[n |-> hours, unit |-> "hours"], [n |-> minutes, unit |-> "minutes"]>>
        ELSE <<[n |-> minutes, unit |-> "minutes"]>>

calculateDuration(startTime, endTime) ==
  LET durationMs == endTime - startTime
      hours == durationMs \div MsPerHour
      minutes == (durationMs % MsPerHour) \div MsPerMinute
  IN  IF hours > 0
        THEN <<Part(hours, "hour"), Part(minutes, "minute")>>
        ELSE <<Part(minutes, "minute")>>

(* start instants (00:00:00.000, 00:00:00.001 and 08:00:00 of a day) and     *)
(* lengths around the minute and hour boundaries, in milliseconds            *)
StartTimes == {0, 1, 8 * MsPerHour}

Lengths ==
  {h * MsPerHour + m * MsPerMinute + ms :
     h \in 0..MaxHours, m \in {0, 1, 2, 59}, ms \in {0, 1, MsPerMinute - 1}}

InitDuration ==
  /\ Idle
  /\ \E startTime \in StartTimes, length \in Lengths :
       heap = [i \in {1} |-> [startTime |-> startTime, endTime |-> startTime + length]]

Duration ==
  /\ last.op = "none"
  /\ last' = [op |-> "calculateDuration", startTime |-> heap[1].startTime,
              endTime |-> heap[1].endTime,
              duration |-> calculateDuration(heap[1].startTime, heap[1].endTime)]
  /\ UNCHANGED <<conn, serial, closed, handler, sinks, up, activeSessions, heap, kvSessions, kvActive,
                 tasks, now, nextId, acked, liveAtStop, failures, stops, calls>>

NextDuration == Duration

SpecDuration == InitDuration /\ [][NextDuration]_vars

(* ---------------------------- vocabulary of the claims -------------------- *)
Registry(r) == heap[activeSessions[r]]

RegisteredRooms == DOMAIN activeSessions

(* a call returned in this step without suspending                           *)
ImmediateReturn == up /\ up' /\ DOMAIN tasks = {} /\ DOMAIN tasks' = {} /\ last'.op # "none"

(* a call suspended at its first await in this step                          *)
Suspended(t) == t \in DOMAIN tasks' /\ t \notin DOMAIN tasks

StoreUnchanged == UNCHANGED <<activeSessions, heap, kvSessions, kvActive>>

(* ids of the sessions of room r whose endTime is unset, over the registry,  *)
(* the active index and the history                                          *)
OpenSessions(r) ==
  {Registry(x).id : x \in {y \in RegisteredRooms : Registry(y).roomId = r
                                                   /\ Registry(y).endTime = NoTime}}
  \cup {kvActive[x].id : x \in {y \in DOMAIN kvActive : kvActive[y].roomId = r
                                                        /\ kvActive[y].endTime = NoTime}}
  \cup {i \in DOMAIN kvSessions : kvSessions[i].roomId = r /\ kvSessions[i].endTime = NoTime}

(* C1: in every reachable state each room has at most one session whose      *)
(* endTime is unset, counting the in-memory registry, the persisted active   *)
(* index and the persisted history together, a session id counting once.     *)
C1_AtMostOneOpenSession == \A r \in Rooms : Cardinality(OpenSessions(r)) <= 1

(* C2: a startMeeting call for a room that is registered never proceeds to   *)
(* create a session; it returns SessionConflict with success = false and     *)
(* leaves the registry, the session objects, the active index and the        *)
(* history as they were.                                                     *)
C2_StartConflict ==
  [][ /\ \A t \in TaskIds :
           (Suspended(t) /\ tasks'[t].op = "startMeeting")
             => tasks'[t].roomId \notin RegisteredRooms
      /\ (ImmediateReturn /\ last'.op = "startMeeting")
           => /\ last'.roomId \in RegisteredRooms
              /\ ~last'.success
              /\ last'.error = "SessionConflict"
              /\ StoreUnchanged ]_vars

(* a second start was refused for a room whose session already holds an entry *)
C2_Witness ==
  /\ last.op = "startMeeting" /\ last.error = "SessionConflict"
  /\ last.roomId \in RegisteredRooms
  /\ Len(Registry(last.roomId).messages) > 0

LifecycleOps == {"endMeeting", "cancelMeeting", "setMeetingTopic"}

(* C3: for a room that is not registered, endMeeting, cancelMeeting and      *)
(* setMeetingTopic return NoActiveSession with success = false, and          *)
(* captureMessage, captureMessageEdit and recordParticipantEvent return      *)
(* false; none of the six suspends at a persistence call and all leave the   *)
(* registry, the active index and the history unchanged.                     *)
C3_NoActiveSession ==
  [][ /\ \A t \in TaskIds :
           (Suspended(t) /\ tasks'[t].op \in LifecycleOps \cup CaptureOps)
             => tasks'[t].roomId \in RegisteredRooms
      /\ (ImmediateReturn /\ last'.op \in LifecycleOps \cup CaptureOps
            /\ last'.roomId \notin RegisteredRooms)
           => /\ ~last'.success
              /\ last'.error = IF last'.op \in LifecycleOps THEN "NoActiveSession" ELSE "false"
              /\ StoreUnchanged ]_vars

(* a call was refused for a room that has no session in memory while records *)
(* of an earlier session exist in the history                                *)
C3_Witness ==
  /\ last.op \in LifecycleOps \cup CaptureOps
  /\ last.error \in {"NoActiveSession", "false"}
  /\ last.roomId \notin RegisteredRooms
  /\ \E i \in DOMAIN kvSessions : kvSessions[i].roomId = last.roomId

(* C4: when endMeeting returns success the returned session has endTime set, *)
(* the returned minutes were composed from exactly that session, the history *)
(* holds the frozen record under the session id, and the room is absent from *)
(* the registry and from the active index.                                   *)
C4_EndSuccess ==
  (last.op = "endMeeting" /\ last.success)
    => /\ last.session.endTime # NoTime
       /\ last.minutes.ok
       /\ last.minutes.source = last.session
       /\ last.session.id \in DOMAIN kvSessions
       /\ kvSessions[last.session.id] = SessionData(last.session)
       /\ kvSessions[last.session.id].endTime # NoTime
       /\ last.roomId \notin RegisteredRooms
       /\ last.roomId \notin DOMAIN kvActive

(* a meeting with two captured entries was ended                             *)
C4_Witness ==
  /\ last.op = "endMeeting" /\ last.success
  /\ Len(last.session.messages) = 2

(* the registry a restart would rebuild from the whole active index          *)
RegistryAfterRestart == Recovered(kvActive, Len(ActiveEntries(kvActive))).reg

(* C5: when cancelMeeting returns success no minutes were generated, the     *)
(* session's record is gone from the history and the room from the active    *)
(* index, getMeetingStatus reports no active meeting, the room is not        *)
(* registered (so endMeeting returns NoActiveSession) and a restart recovers *)
(* no session for the room.                                                  *)
C5_CancelPurges ==
  (last.op = "cancelMeeting" /\ last.success)
    => /\ ~last.minutes.ok
       /\ last.sid \notin DOMAIN kvSessions
       /\ last.roomId \notin DOMAIN kvActive
       /\ ~getMeetingStatus(last.roomId).hasActiveMeeting
       /\ last.roomId \notin RegisteredRooms
       /\ last.roomId \notin DOMAIN RegistryAfterRestart

(* the only meeting ever started was changed by another call and, after a    *)
(* restart, cancelled                                                        *)
C5_Witness ==
  /\ last.op = "cancelMeeting" /\ last.success
  /\ stops > 0
  /\ nextId = 2
  /\ calls >= 3

MutatingOps == {"startMeeting", "setMeetingTopic"} \cup CaptureOps

(* C6: whenever startMeeting, setMeetingTopic, captureMessage,               *)
(* captureMessageEdit or recordParticipantEvent reports success, the active  *)
(* index record of the room and the history record of the session both hold  *)
(* the in-memory snapshot that includes the mutation.                        *)
C6_WriteThrough ==
  (last.op \in MutatingOps /\ last.success)
    => /\ last.roomId \in RegisteredRooms
       /\ last.roomId \in DOMAIN kvActive
       /\ kvActive[last.roomId] = SessionData(Registry(last.roomId))
       /\ last.sid \in DOMAIN kvSessions
       /\ kvSessions[last.sid] = SessionData(Registry(last.roomId))

(* C7: whenever no call is in progress, the registry and the active index    *)
(* hold the same rooms and, for each, the same session id, messages,         *)
(* participant set and topic.                                                *)
C7_NoDivergence ==
  (up /\ DOMAIN tasks = {})
    => /\ RegisteredRooms = DOMAIN kvActive
       /\ \A r \in RegisteredRooms :
            /\ kvActive[r].id = Registry(r).id
            /\ kvActive[r].messages = Registry(r).messages
            /\ Range(kvActive[r].participants) = Range(Registry(r).participants)
            /\ kvActive[r].topic = Registry(r).topic

Equivalent(a, b) ==
  /\ a.id = b.id
  /\ a.startTime = b.startTime
  /\ a.endTime = b.endTime
  /\ a.messages = b.messages
  /\ Range(a.participants) = Range(b.participants)
  /\ a.topic = b.topic

(* the process restarts in this step and reads the whole active index        *)
RestartsFully == ~up /\ up' /\ last'.error = ""

(* C8: a session that was registered with endTime unset when the process     *)
(* stopped with no call in progress is, after the restart, registered under  *)
(* the same room with the same id, startTime, unset endTime, messages in     *)
(* the same order, participant set and topic.                                *)
C8_RoundTrip ==
  [][ (RestartsFully /\ last.idle)
        => \A r \in DOMAIN liveAtStop :
             liveAtStop[r].endTime = NoTime
               => /\ r \in DOMAIN activeSessions'
                  /\ Equivalent(heap'[activeSessions'[r]], liveAtStop[r])
                  /\ heap'[activeSessions'[r]].endTime = NoTime ]_vars

(* a restart recovered a session with two entries, two participants, a topic *)
C8_Witness ==
  /\ last.op = "initialize"
  /\ \E r \in RegisteredRooms :
       /\ Len(Registry(r).messages) = 2
       /\ Cardinality(Range(Registry(r).participants)) = 2
       /\ Registry(r).topic # NoTopic
       /\ Registry(r).startTime < now

RECURSIVE IsSubseq(_, _)
IsSubseq(a, b) ==
  IF a = <<>> THEN TRUE
  ELSE IF b = <<>> THEN FALSE
  ELSE IF a[1] = b[1] THEN IsSubseq(Tail(a), Tail(b))
  ELSE IsSubseq(a, Tail(b))

(* C9: after a stop at any point and a restart that reads the whole active   *)
(* index, every room that was registered at the stop has, in its recovered   *)
(* session, every entry whose capture call had returned true, in capture     *)
(* order.                                                                    *)
C9_NoAckedLoss ==
  [][ RestartsFully
        => \A r \in DOMAIN liveAtStop :
             liveAtStop[r].id \in DOMAIN acked
               => /\ r \in DOMAIN activeSessions'
                  /\ IsSubseq(acked[liveAtStop[r].id],
                              heap'[activeSessions'[r]].messages) ]_vars

(* C10: when a read of the active index fails during recovery, initialize    *)
(* completes without raising and the registry is empty.                      *)
C10_FailedReadEmptyRegistry ==
  (last.op = "initialize" /\ last.error = "ReadFailed")
    => /\ last.success
       /\ up
       /\ activeSessions = EmptyMap

(* ---------------------------- composition claims -------------------------- *)
Composed == last.op = "generateMinutes" /\ last.minutes.ok

(* the sender and instant of an entry                                         *)
Slot(message) == <<message.senderId, message.timestamp>>

(* positions of the rendered lines whose entry has the given sender and time *)
LinesFor(minutes, key) ==
  {i \in DOMAIN minutes.content : Slot(minutes.content[i].source) = key}

(* number of rendered lines whose entry was sent by the given user           *)
LinesOf(minutes, userId) ==
  Cardinality({i \in DOMAIN minutes.content : minutes.content[i].source.senderId = userId})

(* the messageCount the statistics give a user, 0 when they have no entry    *)
StatCount(minutes, userId) ==
  LET entries == {i \in DOMAIN minutes.participantStats :
                    minutes.participantStats[i].userId = userId}
  IN  IF entries = {} THEN 0
      ELSE minutes.participantStats[CHOOSE i \in entries : TRUE].messageCount

(* the distinct instants at which a user has entries                          *)
SlotsOf(messages, userId) ==
  {messages[i].timestamp : i \in {j \in DOMAIN messages : messages[j].senderId = userId}}

(* positions a (original) and b (its only edit) share a sender and an instant *)
EditPair(messages, a, b) ==
  /\ a # b
  /\ ~messages[a].isEdited /\ messages[b].isEdited
  /\ messages[a].senderId # "system"
  /\ Slot(messages[a]) = Slot(messages[b])
  /\ messages[b].originalEventId = messages[a].eventId
  /\ \A c \in DOMAIN messages :
       (Slot(messages[c]) = Slot(messages[b]) /\ messages[c].isEdited) => c = b

(* C14: when a frozen session holds an original and its edit with the same   *)
(* sender and timestamp, in either capture order, the composed document has  *)
(* exactly one line for that sender and timestamp, the line is rendered from *)
(* the edit, and the sender's statistic counts one message per instant.      *)
C14_EditReplacesOriginal ==
  Composed =>
    LET messages == last.minutes.source.messages
    IN  \A a \in DOMAIN messages, b \in DOMAIN messages :
          EditPair(messages, a, b)
            => /\ Cardinality(LinesFor(last.minutes, Slot(messages[b]))) = 1
               /\ \A i \in LinesFor(last.minutes, Slot(messages[b])) :
                    last.minutes.content[i].source = messages[b]
               /\ StatCount(last.minutes, messages[b].senderId)
                    = Cardinality(SlotsOf(messages, messages[b].senderId))

(* the edit was captured before its original, and another entry follows      *)
C14_Witness ==
  /\ Composed
  /\ Len(last.minutes.source.messages) = 3
  /\ EditPair(last.minutes.source.messages, 2, 1)
  /\ Len(last.minutes.content) = 2

Senders == {"u1", "u2"}

(* C16: for every composed document the number of lines rendered from a      *)
(* non-system sender's entries equals that sender's messageCount, and the    *)
(* statistics count as many entries as the transcript renders for users.     *)
C16_TranscriptMatchesStats ==
  Composed =>
    /\ \A u \in Senders : LinesOf(last.minutes, u) = StatCount(last.minutes, u)
    /\ \A i \in DOMAIN last.minutes.participantStats :
         last.minutes.participantStats[i].userId \in Senders

(* system lines are rendered, and a user's duplicate slot was counted once   *)
C16_Witness ==
  /\ Composed
  /\ last.options.includeSystemMessages
  /\ LinesOf(last.minutes, "system") = 1
  /\ \E u \in Senders :
       /\ StatCount(last.minutes, u) = 1
       /\ Cardinality({i \in DOMAIN last.minutes.source.messages :
                         last.minutes.source.messages[i].senderId = u}) = 2

(* the de-duplicated entries of a session, by their (sender, instant) slot    *)
Slots(messages) == {Slot(messages[i]) : i \in DOMAIN messages}

(* the entry that stands for a slot: its last edit, else its first original   *)
Kept(messages, key) ==
  LET inSlot == {i \in DOMAIN messages : Slot(messages[i]) = key}
      edits == {i \in inSlot : messages[i].isEdited}
  IN  IF edits # {} THEN messages[CHOOSE i \in edits : \A j \in edits : j <= i]
      ELSE messages[CHOOSE i \in inSlot : \A j \in inSlot : i <= j]

(* order of first appearance among the timestamp-sorted de-duplicated         *)
(* entries: earlier instant first, same instant by capture order of the slot  *)
FirstSeen(messages, userId) ==
  LET mine == {i \in DOMAIN messages : messages[i].senderId = userId}
      first == CHOOSE i \in mine :
                 \A j \in mine : \/ messages[i].timestamp < messages[j].timestamp
                                 \/ (messages[i].timestamp = messages[j].timestamp /\ i <= j)
  IN  <<messages[first].timestamp, first>>

Before(x, y) == x[1] < y[1] \/ (x[1] = y[1] /\ x[2] < y[2])

(* C17: the statistics hold one entry per non-system sender and none for     *)
(* the system; an entry's displayName is that of the sender's de-duplicated  *)
(* entry with the latest timestamp; entries are ordered by messageCount      *)
(* descending, equal counts in order of first appearance.                    *)
C17_ParticipantStats ==
  Composed =>
    LET messages == last.minutes.source.messages
        stats == last.minutes.participantStats
    IN  /\ {stats[i].userId : i \in DOMAIN stats}
             = {messages[i].senderId : i \in DOMAIN messages} \ {"system"}
        /\ \A i \in DOMAIN stats, j \in DOMAIN stats :
             stats[i].userId = stats[j].userId => i = j
        /\ \A i \in DOMAIN stats :
             LET latest == CHOOSE t \in SlotsOf(messages, stats[i].userId) :
                             \A u \in SlotsOf(messages, stats[i].userId) : u <= t
             IN  /\ stats[i].displayName
                      = Kept(messages, <<stats[i].userId, latest>>).senderDisplayName
                 /\ stats[i].messageCount = Cardinality(SlotsOf(messages, stats[i].userId))
        /\ \A i \in DOMAIN stats, j \in DOMAIN stats :
             i < j => \/ stats[i].messageCount > stats[j].messageCount
                      \/ /\ stats[i].messageCount = stats[j].messageCount
                         /\ Before(FirstSeen(messages, stats[i].userId),
                                   FirstSeen(messages, stats[j].userId))

(* the user seen second ranks first with two messages under a changed name   *)
C17_Witness ==
  /\ Composed
  /\ Len(last.minutes.participantStats) = 2
  /\ last.minutes.participantStats[1] = [userId |-> "u1", displayName |-> "Anna", messageCount |-> 2]
  /\ last.minutes.source.messages[1].senderId = "u2"
  /\ last.minutes.source.messages[2].senderDisplayName = "Ann"

(* C19: two sessions with the same room name and start timestamp get the     *)
(* same document name, and two sessions that differ in room name or start    *)
(* timestamp get different document names.                                   *)
C19_FilenameInjective ==
  (last.op = "generateFilename") =>
    /\ (heap[1].roomName = heap[2].roomName /\ heap[1].startTime = heap[2].startTime)
         => last.first = last.second
    /\ (heap[1].roomName # heap[2].roomName \/ heap[1].startTime # heap[2].startTime)
         => last.first # last.second

(* C20: generateMinutes refuses a session exactly when its endTime is unset  *)
(* and composes every session whose endTime is set, also one without         *)
(* entries, over every session object and stored record the program reaches; *)
(* endMeeting hands it only sessions with endTime set, so it never returns   *)
(* the generation failure.                                                   *)
C20_GenerateNeedsEndTime ==
  [][ /\ \A s \in DOMAIN heap' :
           generateMinutes(heap'[s], DefaultOptions).ok <=> heap'[s].endTime # NoTime
      /\ \A i \in DOMAIN kvSessions' :
           generateMinutes(Rehydrate(kvSessions'[i]), DefaultOptions).ok
             <=> kvSessions'[i].endTime # NoTime
      /\ \A t \in TaskIds :
           (Suspended(t) /\ tasks'[t].op = "endMeeting")
             => /\ tasks'[t].minutes.ok
                /\ tasks'[t].minutes.source = heap'[tasks'[t].sid]
                /\ tasks'[t].minutes.source.endTime # NoTime
      /\ (ImmediateReturn /\ last'.op = "endMeeting")
           => last'.error = "NoActiveSession" ]_vars

(* a meeting without entries was ended and composed while another is open    *)
C20_Witness ==
  /\ last.op = "endMeeting" /\ last.success
  /\ Len(last.session.messages) = 0
  /\ last.minutes.ok /\ last.minutes.content = <<>>
  /\ \E r \in RegisteredRooms : Registry(r).endTime = NoTime

(* C15: captureMessage appends an entry on every call for a registered room, *)
(* also when the same event was captured before, and returns true unless the *)
(* persistence call rejected; the document composed at a successful end has  *)
(* exactly one line for each captured event's sender and timestamp, rendered *)
(* from that event unless an edit replaced it, and the sender's statistic    *)
(* counts the event once.                                                    *)
C15_DuplicatesAbsorbed ==
  [][ /\ \A t \in TaskIds :
           (Suspended(t) /\ tasks'[t].op = "captureMessage")
             => heap'[tasks'[t].sid].messages
                  = Append(heap[tasks'[t].sid].messages, tasks'[t].msg)
      /\ \A t \in DOMAIN tasks :
           (tasks[t].op = "captureMessage" /\ t \notin DOMAIN tasks' /\ failures' = failures)
             => last'.op = "captureMessage" /\ last'.success
      /\ (last'.op = "endMeeting" /\ last'.success)
           => LET messages == last'.session.messages
              IN  \A i \in DOMAIN messages :
                    (~messages[i].isEdited /\ messages[i].senderId # "system")
                      => /\ Cardinality(LinesFor(last'.minutes, Slot(messages[i]))) = 1
                         /\ \A k \in LinesFor(last'.minutes, Slot(messages[i])) :
                              \/ last'.minutes.content[k].source.eventId = messages[i].eventId
                              \/ last'.minutes.content[k].source.isEdited
                         /\ StatCount(last'.minutes, messages[i].senderId)
                              = Cardinality(SlotsOf(messages, messages[i].senderId)) ]_vars

(* a meeting that captured the same event twice was ended                     *)
C15_Witness ==
  /\ last.op = "endMeeting" /\ last.success
  /\ Len(last.session.messages) = 2
  /\ last.session.messages[1] = last.session.messages[2]
  /\ last.session.messages[1].eventId = "e1"
  /\ Len(last.minutes.content) = 1
  /\ StatCount(last.minutes, "u2") = 1

(* ---------------------------- the system-message switch ------------------- *)
(* an entry written for a join, a leave or a redaction                       *)
SystemAuthored(message) == message.senderDisplayName = "System"

SystemLines(minutes) ==
  {i \in DOMAIN minutes.content : SystemAuthored(minutes.content[i].source)}

(* C18: the document endMeeting returns has lines for joins, leaves and      *)
(* redactions exactly when the bot is configured with includeSystemMessages, *)
(* and its participant statistics count no system-authored entry             *)
C18_SystemMessagesSwitch ==
  (last.op = "endMeeting" /\ last.success) =>
    /\ (~ConfiguredOptions.includeSystemMessages => SystemLines(last.minutes) = {})
    /\ (ConfiguredOptions.includeSystemMessages =>
          \A j \in DOMAIN last.session.messages :
            SystemAuthored(last.session.messages[j]) =>
              \E i \in SystemLines(last.minutes) :
                Slot(last.minutes.content[i].source) = Slot(last.session.messages[j]))
    /\ \A u \in Senders :
         StatCount(last.minutes, u) =
           Cardinality({i \in DOMAIN last.minutes.content :
                          /\ last.minutes.content[i].source.senderId = u
                          /\ ~SystemAuthored(last.minutes.content[i].source)})


(* ---------------------------- saving the minutes -------------------------- *)
(* a saveMinutes call is outstanding                                         *)
Saving == handler.pc \in {"save_primary", "save_fallback"}

Inactive(r, registry, index) == r \notin DOMAIN registry /\ r \notin DOMAIN index

(* C11: whenever saveMinutes is called, on either sink, the session passed   *)
(* has its endTime and its room is in neither the registry nor the persisted *)
(* active index; the room is still in neither after each step of the         *)
(* handler, whatever the saves and sends return, and after a stop and the    *)
(* initialize that follows it                                                *)
C11_SavedMeetingStaysEnded ==
  [][/\ Saving => /\ handler.session.endTime # NoTime
                  /\ Inactive(handler.roomId, activeSessions, kvActive)
     /\ handler.pc # "none" => Inactive(handler.roomId, activeSessions', kvActive')
     /\ (last.op = "stop" /\ last.saving # "")
          => Inactive(last.saving, activeSessions', kvActive')]_vars

(* the process stopped between the primary's failure and the fallback's      *)
(* answer                                                                    *)
C11_Witness ==
  /\ last.op = "stop" /\ last.saving # ""
  /\ failures > 0
  /\ sinks.primary = EmptyMap /\ sinks.fallback = EmptyMap


(* the saves a finished handler made on the given sink                       *)
SavesOn(result, sink) == {i \in DOMAIN result.saves : result.saves[i].sink = sink}

PrimaryFailed(result) ==
  /\ result.op = "handleEndMeetingCommand"
  /\ result.saves # <<>>
  /\ result.saves[1].sink = "primary" /\ ~result.saves[1].ok

(* the history record of the session and the two indexes say it has ended    *)
StillEnded(result, registry, index, sessions) ==
  /\ Inactive(result.roomId, registry, index)
  /\ result.session.id \in DOMAIN sessions
  /\ sessions[result.session.id].endTime = result.session.endTime
  /\ result.session.endTime # NoTime

(* C12: when endMeeting succeeded and the primary's saveMinutes rejected,    *)
(* the handler has called the fallback's saveMinutes exactly once, with the  *)
(* session and the document endMeeting returned; when that rejected too it   *)
(* has sent the room a message that the minutes could not be saved; and      *)
(* while the handler runs nothing of the meeting state changes (no second    *)
(* endMeeting, no rollback)                                                  *)
C12_FallbackTriedOnce ==
  [][/\ handler.pc # "none" => StoreUnchanged
     /\ PrimaryFailed(last') =>
          /\ Cardinality(SavesOn(last', "primary")) = 1
          /\ Cardinality(SavesOn(last', "fallback")) = 1
          /\ \A i \in SavesOn(last', "fallback") :
               /\ last'.saves[i].session = handler.session
               /\ last'.saves[i].content = handler.minutes
               /\ last'.saves[i].session = last'.saves[1].session
               /\ last'.saves[i].content = last'.saves[1].content
               /\ ~last'.saves[i].ok =>
                    \E n \in DOMAIN last'.notices :
                      /\ last'.notices[n].kind = "failed_to_save"
                      /\ last'.notices[n].roomId = handler.roomId
                      /\ n = Len(last'.notices) => last'.notices[n].delivered
          /\ StillEnded(last', activeSessions', kvActive', kvSessions')]_vars

(* both sinks rejected and the room was told                                 *)
C12_Witness ==
  /\ PrimaryFailed(last)
  /\ \E i \in SavesOn(last, "fallback") : ~last.saves[i].ok
  /\ \E n \in DOMAIN last.notices :
       last.notices[n].kind = "failed_to_save" /\ last.notices[n].delivered


(* the kinds of the messages a finished handler got delivered to the room    *)
DeliveredKinds(result) ==
  {result.notices[n].kind : n \in {k \in DOMAIN result.notices : result.notices[k].delivered}}

AttemptedKinds(result) == {result.notices[n].kind : n \in DOMAIN result.notices}

SavedOn(result, sink) == \E i \in SavesOn(result, sink) : result.saves[i].ok

(* C13: when the primary rejected and the fallback accepted, the fallback    *)
(* holds the composed document at the path it derives for the session and    *)
(* the room is told that the local backup holds the minutes; when the        *)
(* primary accepted, the room is told the primary's location                 *)
C13_MessageNamesTheSink ==
  last.op = "handleEndMeetingCommand" =>
    /\ (PrimaryFailed(last) /\ SavedOn(last, "fallback")) =>
         /\ generateFilePath(last.session) \in DOMAIN sinks.fallback
         /\ sinks.fallback[generateFilePath(last.session)] = last.minutes
         /\ "saved_to_local_backup" \in AttemptedKinds(last)
         /\ DeliveredKinds(last) \subseteq {"saved_to_local_backup"}
    /\ SavedOn(last, "primary") =>
         /\ "available_at_primary" \in AttemptedKinds(last)
         /\ DeliveredKinds(last) \subseteq {"available_at_primary"}


(* ---------------------------- the duration claim -------------------------- *)
Singular(part, unit) == part.unit = unit
Plural(part, unit) == part.unit = unit \o "s"

(* the part says n of the unit, the word singular exactly when n is 1        *)
Says(part, n, unit) ==
  /\ part.n = n
  /\ IF n = 1 THEN Singular(part, unit) ELSE Plural(part, unit)

(* C21: for start <= end the duration names h whole hours and m remaining    *)
(* whole minutes of end - start, with 0 <= m <= 59; each unit word is        *)
(* singular exactly when its number is 1; the hours part is there exactly    *)
(* when at least one whole hour has passed, so two hours give                *)
(* "2 hours 0 minutes"                                                       *)
C21_Duration ==
  last.op = "calculateDuration" =>
    LET d == last.endTime - last.startTime
        parts == last.duration
    IN  \E h \in 0..(MaxHours + 1), m \in 0..59 :
          /\ h * MsPerHour + m * MsPerMinute <= d
          /\ d < h * MsPerHour + (m + 1) * MsPerMinute
          /\ IF h > 0
               THEN Len(parts) = 2 /\ Says(parts[1], h, "hour") /\ Says(parts[2], m, "minute")
               ELSE Len(parts) = 1 /\ Says(parts[1], m, "minute")

(* the example: 08:00:00 to 10:00:00                                         *)
C21_Witness ==
  /\ last.op = "calculateDuration"
  /\ last.startTime = 8 * MsPerHour /\ last.endTime = 10 * MsPerHour
  /\ last.duration = <<[n |-> 2, unit |-> "hours"], [n |-> 0, unit |-> "minutes"]>>


(* ---------------------------- the captured entries ------------------------ *)
IsPrefix(a, b) == Len(a) <= Len(b) /\ SubSeq(b, 1, Len(a)) = a

(* the capture call that started in this step on session s                   *)
CaptureStarted(s) ==
  {t \in DOMAIN tasks' : Suspended(t) /\ tasks'[t].op \in CaptureOps /\ tasks'[t].sid = s}

(* C22: in every step every session object keeps the entries it had, in      *)
(* place; it gains at most one entry, at the end, and only by a capture      *)
(* call; the entry an edit adds is flagged edited and names the event it     *)
(* replaces, whose own entry stays                                           *)
C22_AppendOnly ==
  [][\A s \in DOMAIN heap \cap DOMAIN heap' :
       LET before == heap[s].messages
           after == heap'[s].messages
       IN  (up /\ up') =>
             /\ IsPrefix(before, after)
             /\ Len(after) <= Len(before) + 1
             /\ Len(after) = Len(before) + 1 =>
                  \E t \in CaptureStarted(s) :
                    /\ after[Len(after)] = tasks'[t].msg
                    /\ tasks'[t].op = "captureMessageEdit" =>
                         /\ after[Len(after)].isEdited
                         /\ after[Len(after)].originalEventId
                              \in {e.originalEventId : e \in EditEvents}]_vars

(* a session holds an entry and, after it, the edit that replaces it         *)
C22_Witness ==
  \E s \in DOMAIN heap :
    \E i, j \in DOMAIN heap[s].messages :
      /\ i < j
      /\ ~heap[s].messages[i].isEdited
      /\ heap[s].messages[j].isEdited
      /\ heap[s].messages[j].originalEventId = heap[s].messages[i].eventId


(* ---------------------------- the ended session --------------------------- *)
Content(session) ==
  [messages |-> session.messages, participants |-> session.participants,
   topic |-> session.topic]

(* C23: a session object whose endTime is set keeps its messages, its        *)
(* participants and its topic in every step, and the session endMeeting      *)
(* returns has exactly the messages its document was composed from; also     *)
(* when a call for the room starts while endMeeting is suspended             *)
C23_FrozenAtEnd ==
  [][/\ \A s \in DOMAIN heap \cap DOMAIN heap' :
          (up /\ up' /\ heap[s].endTime # NoTime) => Content(heap'[s]) = Content(heap[s])
     /\ (last'.op = "endMeeting" /\ last'.success) =>
          last'.session.messages = last'.minutes.source.messages]_vars


(* ---------------------------- the participants ---------------------------- *)
Users == {"u1", "u2"}

JoinNotice(u) == DisplayName(u) \o " joined"
LeaveNotice(u) == DisplayName(u) \o " left"

(* the users a session's entries show to have sent a message or joined       *)
Seen(session) ==
  {u \in Users : \E i \in DOMAIN session.messages :
                   \/ session.messages[i].senderId = u
                   \/ /\ session.messages[i].senderId = "system"
                      /\ session.messages[i].content = JoinNotice(u)}

(* C24: a session starts with the chair as its only participant; no step    *)
(* takes a participant away; a message or an edit adds its sender, a join    *)
(* adds the user, a leave adds its notice and changes no participant; so     *)
(* the session endMeeting returns has the chair and everyone who joined or   *)
(* sent a message among its participants                                     *)
C24_ParticipantsOnlyGrow ==
  [][(up /\ up') =>
       /\ \A s \in DOMAIN heap' \ DOMAIN heap :
            heap'[s].participants = <<heap'[s].chairUserId>>
       /\ \A s \in DOMAIN heap \cap DOMAIN heap' :
            /\ Range(heap[s].participants) \subseteq Range(heap'[s].participants)
            /\ \A t \in CaptureStarted(s) :
                 LET m == tasks'[t].msg
                 IN  /\ m.senderId # "system" => m.senderId \in Range(heap'[s].participants)
                     /\ \A u \in Users :
                          /\ (m.senderId = "system" /\ m.content = JoinNotice(u))
                               => u \in Range(heap'[s].participants)
                          /\ (m.senderId = "system" /\ m.content = LeaveNotice(u))
                               => heap'[s].participants = heap[s].participants
       /\ (last'.op = "endMeeting" /\ last'.success) =>
            {last'.session.chairUserId} \cup Seen(last'.session)
              \subseteq Range(last'.session.participants)]_vars

(* a meeting ended after a user joined and left without sending a message   *)
C24_Witness ==
  /\ last.op = "endMeeting" /\ last.success
  /\ \E i \in DOMAIN last.session.messages :
       /\ last.session.messages[i].senderId = "system"
       /\ last.session.messages[i].content = LeaveNotice("u2")
  /\ \A i \in DOMAIN last.session.messages : last.session.messages[i].senderId # "u2"
  /\ last.session.participants = <<"u1", "u2">>


(* ---------------------------- the rooms ----------------------------------- *)
(* what the manager holds for a room: the registered session, the entry of   *)
(* the active index and the history records                                  *)
RoomView(r) ==
  [session |-> IF r \in DOMAIN activeSessions THEN heap[activeSessions[r]] ELSE NoSession,
   active |-> IF r \in DOMAIN kvActive THEN kvActive[r] ELSE NoSession,
   history |-> [i \in {j \in DOMAIN kvSessions : kvSessions[j].roomId = r} |-> kvSessions[i]]]

(* the rooms of the calls that started, resumed or returned in this step     *)
ActingRooms ==
  {tasks[t].roomId : t \in {u \in DOMAIN tasks : u \notin DOMAIN tasks' \/ tasks'[u] # tasks[u]}}
  \cup {tasks'[t].roomId : t \in DOMAIN tasks' \ DOMAIN tasks}
  \cup (IF "roomId" \in DOMAIN last' THEN {last'.roomId} ELSE {})

(* C25: every step belongs to one room at most, and it leaves every other    *)
(* room's registered session, active-index entry and history records as      *)
(* they were, whether the call succeeds or fails and however the calls of    *)
(* the rooms interleave at their awaits                                      *)
C25_RoomsIndependent ==
  [][LET acting == ActingRooms
     IN  /\ Cardinality(acting) <= 1
         /\ \A r \in Rooms \ acting : RoomView(r)' = RoomView(r)]_vars

(* calls of both rooms are suspended at once, after a call has failed        *)
C25_Witness ==
  /\ failures > 0
  /\ \E t, u \in DOMAIN tasks : tasks[t].roomId = "r1" /\ tasks[u].roomId = "r2"
  /\ kvSessions # EmptyMap


(* ---------------------------- the gating of edits ------------------------- *)
EditStarted == {t \in DOMAIN tasks' : Suspended(t) /\ tasks'[t].op = "captureMessageEdit"}

(* C26: captureMessageEdit goes on to change the session only when the room  *)
(* has an active session and the event's message type is text, emote or      *)
(* notice, and then it appends one entry flagged edited, adds the sender to  *)
(* the participants and returns true once the session is persisted; in the   *)
(* other cases it returns false and changes nothing                          *)
C26_EditGating ==
  [][/\ \A t \in EditStarted :
          LET m == tasks'[t].msg
              s == tasks'[t].sid
          IN  /\ tasks'[t].roomId \in DOMAIN activeSessions
              /\ m.messageType \in CapturedTypes
              /\ m.isEdited
              /\ heap'[s].messages = Append(heap[s].messages, m)
              /\ m.senderId \in Range(heap'[s].participants)
     /\ (last'.op = "captureMessageEdit" /\ EditStarted = {} /\ ~last'.success
         /\ DOMAIN tasks = DOMAIN tasks') => StoreUnchanged
     /\ (last'.op = "captureMessageEdit" /\ last'.success) =>
          \E i \in DOMAIN kvSessions'[last'.sid].messages :
            kvSessions'[last'.sid].messages[i].isEdited]_vars


(* ---------------------------- authorization ------------------------------- *)
LifecycleCommands == {"start", "end", "cancel", "topic"}
GatedOps == {"startMeeting", "endMeeting", "cancelMeeting", "setMeetingTopic"}

(* a manager method that can change a session was called in this step: it    *)
(* suspended, or it returned at once                                         *)
LifecycleCalled ==
  \/ \E t \in DOMAIN tasks' : Suspended(t) /\ tasks'[t].op \in GatedOps
  \/ DOMAIN tasks' = DOMAIN tasks /\ last'.op \in GatedOps

(* C27: the step that handles a start, end, cancel or topic command calls    *)
(* the manager only when the sender is an authorized user; for any other     *)
(* sender it changes no session state and starts no call; a status or help   *)
(* command is answered for every sender                                      *)
C27_AuthorizationGates ==
  [][\A e \in CommandEvents :
       processEvent(e.room_id, e) =>
         /\ (e.command \in LifecycleCommands /\ e.sender \in AuthorizedUsers) => LifecycleCalled
         /\ (e.command \in LifecycleCommands /\ e.sender \notin AuthorizedUsers) =>
              /\ ~LifecycleCalled
              /\ StoreUnchanged /\ UNCHANGED tasks
              /\ last'.op = "denied"
         /\ e.command \in {"status", "help"} =>
              /\ last'.op = e.command /\ last'.sender = e.sender
              /\ StoreUnchanged /\ UNCHANGED tasks
              /\ e.command = "status" =>
                   last'.status.hasActiveMeeting = (e.room_id \in DOMAIN activeSessions)]_vars

(* an end command of a sender who is not authorized was refused while the    *)
(* room's meeting was active                                                 *)
C27_Witness ==
  /\ last.op = "denied" /\ last.command = "end" /\ last.sender \notin AuthorizedUsers
  /\ last.roomId \in DOMAIN activeSessions
  /\ Len(heap[activeSessions[last.roomId]].messages) > 0


(* ---------------------------- the lifecycle of a room --------------------- *)
(* ids of the history records of sessions that an endMeeting has closed      *)
Ended == {i \in DOMAIN kvSessions : kvSessions[i].endTime # NoTime}

(* C28: startMeeting fails only for a room that has a registered session,    *)
(* so it succeeds again after an end or a cancel; the session it returns     *)
(* has no messages, the chair as its only participant and an id that no      *)
(* closed session had; the history record of every ended session stays      *)
(* as it was                                                                 *)
C28_Reentrant ==
  [][/\ (last'.op = "startMeeting" /\ ~last'.success) =>
          last'.roomId \in DOMAIN activeSessions
     /\ (last'.op = "startMeeting" /\ last'.success) =>
          /\ last'.session.messages = <<>>
          /\ last'.session.participants = <<last'.session.chairUserId>>
          /\ last'.session.endTime = NoTime
          /\ last'.session.id \notin closed \cup Ended
     /\ \A i \in Ended : i \in DOMAIN kvSessions' /\ kvSessions'[i] = kvSessions[i]
     /\ \A t \in DOMAIN tasks' :
          (Suspended(t) /\ tasks'[t].op = "startMeeting") => tasks'[t].sid \notin closed]_vars

(* a meeting was started in a room whose earlier meeting had been ended      *)
C28_Witness ==
  /\ last.op = "startMeeting" /\ last.success
  /\ \E i \in Ended : /\ kvSessions[i].roomId = last.roomId
                      /\ i \in closed
                      /\ i # last.session.id
                      /\ Len(kvSessions[i].messages) > 0


(* ---------------------------- overlapping calls --------------------------- *)
(* the calls that returned in this step                                      *)
Returned == DOMAIN tasks \ DOMAIN tasks'

ClosingOps == {"endMeeting", "cancelMeeting"}

(* C29: an endMeeting or cancelMeeting call returns success only for a       *)
(* session that no earlier endMeeting or cancelMeeting call has closed, so   *)
(* one meeting gives one successful end and one document for the sinks,      *)
(* also when the calls overlap                                               *)
C29_ClosedOnce ==
  [][\A t \in Returned :
       (tasks[t].op \in ClosingOps /\ last'.success) =>
         /\ tasks[t].sid \notin closed
         /\ tasks[t].op = "endMeeting" => handler.pc = "none"]_vars


(* a startMeeting call of room r is suspended and its session is registered  *)
Starting(r) ==
  {t \in DOMAIN tasks : /\ tasks[t].op = "startMeeting" /\ tasks[t].roomId = r
                        /\ r \in DOMAIN activeSessions /\ activeSessions[r] = tasks[t].sid}

(* no endMeeting or cancelMeeting call has touched the session               *)
Untouched(s) ==
  /\ s \notin closed
  /\ heap[s].endTime = NoTime
  /\ \A u \in DOMAIN tasks : tasks[u].op \in ClosingOps => tasks[u].sid # s

(* C30: while a startMeeting call of a room is suspended at its persistence  *)
(* await, another startMeeting call for the room creates no session: it      *)
(* returns SessionConflict; the first call returns success, and the          *)
(* registry and the active index then hold its session                      *)
C30_OverlappingStarts ==
  [][\A r \in Rooms :
       /\ Starting(r) # {} =>
            /\ \A u \in DOMAIN tasks' :
                 Suspended(u) => ~(tasks'[u].op = "startMeeting" /\ tasks'[u].roomId = r)
            /\ (last'.op = "startMeeting" /\ last'.roomId = r /\ Returned = {}) =>
                 (~last'.success /\ last'.error = "SessionConflict")
       /\ \A t \in Returned \cap Starting(r) :
            Untouched(tasks[t].sid) =>
              /\ last'.success
              /\ r \in DOMAIN activeSessions' /\ activeSessions'[r] = tasks[t].sid
              /\ r \in DOMAIN kvActive' /\ kvActive'[r].id = tasks[t].sid]_vars

(* a second start was refused while the first was still suspended            *)
C30_Witness ==
  /\ last.op = "startMeeting" /\ ~last.success /\ last.error = "SessionConflict"
  /\ Starting(last.roomId) # {}
  /\ last.roomId \notin DOMAIN kvActive

(* ---------------------------- the registry holds open sessions ------------ *)
(* no manager call is suspended and no end command is being handled          *)
Quiet == DOMAIN tasks = {} /\ handler.pc = "none"

(* C31: whenever no operation is in progress every registered session has    *)
(* its endTime unset, also after an endMeeting call that returned failure    *)
(* because a kv call of it rejected, so getMeetingStatus never reports an    *)
(* active meeting whose session carries an endTime                           *)
C31_RegisteredSessionsOpen ==
  Quiet =>
    \A r \in Rooms :
      getMeetingStatus(r).hasActiveMeeting => heap[activeSessions[r]].endTime = NoTime

(* ---------------------------- the active index ---------------------------- *)
(* C32: in every persisted state each active-index entry stored under room r *)
(* is a record of room r with its endTime unset, and a history record with   *)
(* the same session id exists                                                *)
C32_ActiveIndexWellFormed ==
  \A r \in DOMAIN kvActive :
    /\ kvActive[r].roomId = r
    /\ kvActive[r].endTime = NoTime
    /\ kvActive[r].id \in DOMAIN kvSessions

(* ---------------------------- the fallback sink --------------------------- *)
(* the primary sink accepted the document in this run of the handler         *)
PrimaryAccepted(saves) == \E i \in DOMAIN saves : saves[i].sink = "primary" /\ saves[i].ok

(* C33: the fallback's saveMinutes is called only after the primary's call   *)
(* for that meeting rejected; when the primary accepted and a later step of  *)
(* the handler fails, the document is not written to the fallback as well    *)
(* and the room is not told that the primary storage failed                  *)
C33_FallbackOnlyAfterPrimaryFailed ==
  /\ handler.pc = "save_fallback" => ~PrimaryAccepted(handler.saves)
  /\ (last.op = "handleEndMeetingCommand" /\ PrimaryAccepted(last.saves)) =>
       /\ SavesOn(last, "fallback") = {}
       /\ "saved_to_local_backup" \notin AttemptedKinds(last)

(* ---------------------------- documents in a sink ------------------------- *)
Sinks == {"primary", "fallback"}

(* the ids of the sessions whose document the sink holds                     *)
Holds(store, sink) == {store[sink][p].source.id : p \in DOMAIN store[sink]}

(* C34: a document a sink accepted stays retrievable from it: no step takes  *)
(* the document of one session out of a sink, also not the accepted save of  *)
(* another meeting of the same room that started in the same minute          *)
C34_SinkKeepsDocuments ==
  [][\A sink \in Sinks : Holds(sinks, sink) \subseteq Holds(sinks', sink)]_vars

(* ---------------------------- entries of distinct events ------------------ *)
(* the event an entry was captured from: a message's event id, a notice's    *)
(* membership change                                                         *)
SourceOf(message) == IF message.senderId = "system" THEN message.content ELSE message.eventId

(* another entry is a repeated delivery of the same event or an edit of it   *)
Absorbable(messages, a) ==
  \E c \in DOMAIN messages \ {a} :
    \/ SourceOf(messages[c]) = SourceOf(messages[a])
    \/ messages[c].isEdited /\ messages[c].originalEventId = messages[a].eventId

Lasting(messages, userId) ==
  {a \in DOMAIN messages : messages[a].senderId = userId /\ ~Absorbable(messages, a)}

(* C35: an entry is left out of the document only when another entry is a    *)
(* repeated delivery or an edit of the same event: every other entry is      *)
(* rendered and counted for its sender, also when two of them have the same  *)
(* sender and the same timestamp                                             *)
C35_DistinctEventsKept ==
  Composed =>
    LET messages == last.minutes.source.messages
    IN  /\ \A a \in DOMAIN messages :
             (~Absorbable(messages, a)
                /\ (messages[a].senderId = "system" => last.options.includeSystemMessages))
               => \E i \in DOMAIN last.minutes.content :
                    last.minutes.content[i].source = messages[a]
        /\ StatCount(last.minutes, "u2") >= Cardinality(Lasting(messages, "u2"))

(* ---------------------------- an edit seen by both listeners -------------- *)
(* positions of the entries captured from the event, plain or as edits       *)
EntriesOf(messages, event, edited) ==
  {i \in DOMAIN messages :
     messages[i].eventId = event.event_id /\ messages[i].isEdited = edited}

LinesOfEvent(minutes, event) ==
  {i \in DOMAIN minutes.content : minutes.content[i].source.eventId = event.event_id}

EventsOf(messages, userId) ==
  {messages[i].eventId : i \in {j \in DOMAIN messages : messages[j].senderId = userId}}

(* C36: when the meeting that is ended captured an edit event once from the  *)
(* room.message listener, as a plain message with the outer body, and once   *)
(* from the room.event listener, as an edit, in either order, the document   *)
(* has exactly one line for the event, that line carries the edit marker and *)
(* the new content, and the sender's statistic counts each of the sender's   *)
(* events once                                                               *)
C36_EditRenderedOnce ==
  (last.op = "endMeeting" /\ last.success) =>
    \A e \in EditDeliveries :
      LET messages == last.minutes.source.messages
      IN  (/\ Cardinality(EntriesOf(messages, e, FALSE)) = 1
           /\ Cardinality(EntriesOf(messages, e, TRUE)) = 1)
            => /\ \A i \in EntriesOf(messages, e, FALSE) : messages[i].content = e.body
               /\ Cardinality(LinesOfEvent(last.minutes, e)) = 1
               /\ \A i \in LinesOfEvent(last.minutes, e) :
                    last.minutes.content[i].text = <<e.new_content.body, TRUE>>
               /\ StatCount(last.minutes, e.sender)
                    = Cardinality(EventsOf(messages, e.sender))

(* the edit was captured before the plain copy of the same event             *)
C36_Witness ==
  /\ last.op = "endMeeting" /\ last.success
  /\ Len(last.session.messages) = 2
  /\ last.session.messages[1].isEdited /\ ~last.session.messages[2].isEdited
  /\ last.session.messages[1].eventId = "e2" /\ last.session.messages[2].eventId = "e2"
  /\ Len(last.minutes.content) = 1

(* ---------------------------- what is appended ---------------------------- *)
CommandIds == {e.event_id : e \in {x \in RoomMessages : isCommand(x)}}

(* the entries a session holds for an event                                  *)
Copies(h, sid, eventId) ==
  Cardinality({i \in DOMAIN h[sid].messages : h[sid].messages[i].eventId = eventId})

(* the calls that started in this step                                       *)
Started == DOMAIN tasks' \ DOMAIN tasks

(* C37: no session holds an entry sent by the bot's own user or captured     *)
(* from a command message, and a delivery of any other text, emote or notice *)
(* message to a room with an active meeting appends one entry for it         *)
C37_AppendedOncePerDelivery ==
  [][/\ \A sid \in DOMAIN heap' : \A i \in DOMAIN heap'[sid].messages :
          /\ heap'[sid].messages[i].senderId # BotUser
          /\ heap'[sid].messages[i].eventId \notin CommandIds
     /\ \A t \in Started :
          tasks'[t].op \in CaptureOps =>
            Copies(heap', tasks'[t].sid, tasks'[t].msg.eventId)
              = Copies(heap, tasks'[t].sid, tasks'[t].msg.eventId) + 1]_vars

(* ---------------------------- reconnecting -------------------------------- *)
(* C38: a running service whose client has been stopped for a reconnect      *)
(* comes to have a syncing client again; reconnectAttempts stays within      *)
(* maxReconnectAttempts + 1 and reconnectDelay within 30000 ms; the delay    *)
(* doubles, up to the cap, with each timer that fires; a restored sync sets  *)
(* the attempts to 0 and the delay to 1000 ms                                *)
C38_Reconnects ==
  /\ [](/\ conn.reconnectAttempts <= maxReconnectAttempts + 1
        /\ conn.reconnectDelay <= DelayCap)
  /\ [][/\ conn'.waiting < conn.waiting
          => conn'.reconnectDelay = Min(2 * conn.reconnectDelay, DelayCap)
        /\ (conn.reconnectAttempts > 0 /\ conn'.reconnectAttempts = 0 /\ conn.starting = conn'.starting)
          => conn'.reconnectDelay = InitialDelay]_vars
  /\ (conn.isRunning /\ conn.client = "stopped") ~> (conn.client = "syncing")

====
